---- MODULE Spec2Model ----
(***************************************************************************)
(* State-machine model of the starface-planner backend:                    *)
(*   - InstanceStore   (backend/src/stores/instanceStore.ts)               *)
(*   - SyncService     (backend/src/services/syncService.ts)               *)
(*   - toAppError      (backend/src/errors.ts)                             *)
(*   - loginToStarface (backend/src/starface/login.ts)                     *)
(* Time is the value of Date.now() in milliseconds.                        *)
(***************************************************************************)
EXTENDS Integers, Sequences, FiniteSets, TLC

VARIABLES
    now,                 \* Date.now() / new Date()
    instancesById,       \* InstanceStore.instancesById
    instancesByBaseUrl,  \* InstanceStore.instancesByBaseUrl
    healthByInstanceId,  \* InstanceStore.healthByInstanceId
    runningInstances,    \* SyncService.runningInstances
    lastSyncStartedAt,   \* SyncService.lastSyncStartedAt
    payloadByInstanceId, \* SyncResultStore: the payload held per instance
    calls,               \* syncInstance calls that were admitted and are pending
    verifies,            \* verifyInstanceLogin calls that are pending
    lastUpsert,          \* history: per base URL, the parameters of the most recent upsert
    admittedAt,          \* history: per instance, when its most recent sync was admitted
    ev,                  \* what the most recent handler step did / handed to its caller
    artifact,            \* login.ts: the file at instance.storageStatePath
    lpc,                 \* login.ts: position of the loginToStarface call
    page,                \* login.ts: what the browser page shows
    lres,                \* login.ts: what loginToStarface handed to its caller
    ltrace,              \* login.ts: what the loginToStarface call did so far
    lastSynced,          \* history: per instance, the payload of its most recent successful sync
    ppc,                 \* position of the planner / normalizer run
    plannerModules,      \* planner: the Module[] handed to detectConflicts
    selectedDate,        \* planner: the Date the schedule is evaluated for
    evaluatedBlocks,     \* planner: the blocks detectConflicts flattened
    conflicts,           \* planner: the Conflict[] detectConflicts returned
    dateInput,           \* history: the calendar date selectedDate was made from
    evalRules,           \* planner: the Rule[] handed to evaluateRulesForDate
    timeRanges,          \* planner: what evaluateRulesForDate returned
    rawModules,          \* scraper: the RawModule[] of one scrape
    normalized,          \* scraper: what normalizeRawModules returned or threw
    logins               \* login.ts: where each loginToStarface execution stands

orchVars == <<now, instancesById, instancesByBaseUrl, healthByInstanceId,
              runningInstances, lastSyncStartedAt, payloadByInstanceId,
              calls, verifies, lastUpsert, admittedAt, ev, lastSynced>>

loginVars == <<artifact, lpc, page, lres, ltrace>>

planVars == <<ppc, plannerModules, selectedDate, evaluatedBlocks, conflicts,
              dateInput, evalRules, timeRanges, rawModules, normalized>>

vars == <<orchVars, loginVars, planVars, logins>>

(***************************************************************************)
(* Bounds of the model                                                     *)
(***************************************************************************)
TickMs == 500        \* granularity of the clock
MaxNow == 3500       \* the clock stops here
MaxCalls == 3        \* slots for pending syncInstance calls
MaxVerifies == 1     \* slots for pending verifyInstanceLogin calls
MaxModules == 2      \* distinct payload contents a scrape can produce

(***************************************************************************)
(* Configuration handed to SyncService (SyncServiceOptions)                *)
(***************************************************************************)
syncCooldownMs == 1200
syncTimeoutMs == 1000

Null == "null"
Undefined == "undefined"

\* a JavaScript Map: a function whose domain is the set of keys present
EmptyMap == <<>>
MapHas(m, k) == k \in DOMAIN m
MapSet(m, k, v) == [x \in (DOMAIN m) \cup {k} |-> IF x = k THEN v ELSE m[x]]
MapDelete(m, k) == [x \in (DOMAIN m) \ {k} |-> m[x]]

BaseUrls == {"https://a.starface-cloud.com", "https://b.starface-cloud.com"}
Usernames == {"admin", "root"}
Passwords == {"pw1", "pw2"}
DisplayNames == {Undefined, "Anlage"}
authDir == ".auth"
selectorVersion == "starface-cloud-v10-2026-02-14"

CallIds == 1..MaxCalls
VerifyIds == 1..MaxVerifies

\* utils/ids.ts: "inst-" + first 16 hex digits of sha256(baseUrl); the digest is
\* tabulated for the base URLs of the model (distinct URLs, distinct digests).
createInstanceId(baseUrl) ==
    IF baseUrl = "https://a.starface-cloud.com" THEN "inst-a1" ELSE "inst-b2"

InstanceIds == {createInstanceId(u) : u \in BaseUrls}

\* Math.ceil(a / b) for b > 0
Ceil(a, b) == IF a % b = 0 THEN a \div b ELSE (a \div b) + 1

(***************************************************************************)
(* errors.ts                                                               *)
(***************************************************************************)
AppError(code, message, status) ==
    [kind |-> "AppError", code |-> code, message |-> message, status |-> status]

PlainError(message) ==
    [kind |-> "Error", code |-> Undefined, message |-> message, status |-> 0]

ThrownValue ==
    [kind |-> "value", code |-> Undefined, message |-> Undefined, status |-> 0]

isAppError(error) == error.kind = "AppError"

\* every error replaced by the generic one
toAppErrorGeneric(error) ==
    IF error.kind = "value"
    THEN AppError("INTERNAL_ERROR", "Unexpected error", 500)
    ELSE AppError("INTERNAL_ERROR", error.message, 500)

toAppError(error) ==
    IF isAppError(error) THEN error
    ELSE IF error.kind = "Error"
         THEN AppError("INTERNAL_ERROR", error.message, 500)
         ELSE AppError("INTERNAL_ERROR", "Unexpected error", 500)

NoError == [kind |-> "none", code |-> Null, message |-> Null, status |-> 0]

\* what automation.scrapeModules / automation.verifyLogin can reject with
LoginErrors ==
    { AppError("OAUTH_LOGIN_FAILED", "OAuth Login wurde von STARFACE abgelehnt", 401),
      PlainError("page.goto: Timeout exceeded") }

PipelineErrors ==
    LoginErrors \cup
    { AppError("FRONTEND_CHANGED", "Modul-Zeilen wurden erwartet", 502),
      ThrownValue }

SaveErrors == { PlainError("ENOSPC: no space left on device") }

(***************************************************************************)
(* stores/instanceStore.ts                                                 *)
(***************************************************************************)
\* new Date(t).toISOString(): the instant, as text
nowIso(t) == "T" \o ToString(t)

NewHealth(instanceId, t) ==
    [instanceId |-> instanceId,
     lastSuccessfulSyncAt |-> Null,
     lastError |-> Null,
     lastErrorCode |-> Null,
     selectorVersion |-> selectorVersion,
     loginOk |-> FALSE,
     updatedAt |-> nowIso(t)]

\* the health map after ensureHealth(instanceId)
ensureHealth(health, instanceId, t) ==
    IF MapHas(health, instanceId)
    THEN health
    ELSE MapSet(health, instanceId, NewHealth(instanceId, t))

\* the health record touched without recording the login
markLoginTouchOnly(health, instanceId, loginOk, t) ==
    LET h == ensureHealth(health, instanceId, t)
    IN  [h EXCEPT ![instanceId] = [@ EXCEPT !.updatedAt = nowIso(t)]]

markLogin(health, instanceId, loginOk, t) ==
    LET h == ensureHealth(health, instanceId, t)
    IN  [h EXCEPT ![instanceId] =
            [@ EXCEPT !.loginOk = loginOk, !.updatedAt = nowIso(t)]]

\* the success stamped with the current time instead of the payload's fetchedAt
markSyncSuccessNow(health, instanceId, timestamp, t) ==
    LET h == ensureHealth(health, instanceId, t)
    IN  [h EXCEPT ![instanceId] =
            [@ EXCEPT !.lastSuccessfulSyncAt = nowIso(t),
                      !.lastError = Null,
                      !.lastErrorCode = Null,
                      !.updatedAt = nowIso(t)]]

markSyncSuccess(health, instanceId, timestamp, t) ==
    LET h == ensureHealth(health, instanceId, t)
    IN  [h EXCEPT ![instanceId] =
            [@ EXCEPT !.lastSuccessfulSyncAt = timestamp,
                      !.lastError = Null,
                      !.lastErrorCode = Null,
                      !.updatedAt = nowIso(t)]]

\* a failure that also withdraws the recorded login
markSyncFailureClearsLogin(health, instanceId, errorCode, message, t) ==
    LET h == ensureHealth(health, instanceId, t)
    IN  [h EXCEPT ![instanceId] =
            [@ EXCEPT !.lastErrorCode = errorCode,
                      !.lastError = message,
                      !.loginOk = FALSE,
                      !.updatedAt = nowIso(t)]]

markSyncFailure(health, instanceId, errorCode, message, t) ==
    LET h == ensureHealth(health, instanceId, t)
    IN  [h EXCEPT ![instanceId] =
            [@ EXCEPT !.lastErrorCode = errorCode,
                      !.lastError = message,
                      !.updatedAt = nowIso(t)]]

\* path.join(authDir, `${instanceId}.json`)
storageStatePathOf(instanceId) == authDir \o "/" \o instanceId \o ".json"

\* credentials merged with the stored ones: the stored password is kept
UpdatedRecordMerged(existing, params, t) ==
    [existing EXCEPT
        !.displayName = IF params.displayName # Undefined
                        THEN params.displayName ELSE existing.displayName,
        !.credentials = [username |-> params.username,
                         password |-> existing.credentials.password],
        !.updatedAt = nowIso(t)]

\* the record upsert() stores on the update path
UpdatedRecord(existing, params, t) ==
    [existing EXCEPT
        !.displayName = IF params.displayName # Undefined
                        THEN params.displayName ELSE existing.displayName,
        !.credentials = [username |-> params.username, password |-> params.password],
        !.updatedAt = nowIso(t)]

\* the record upsert() stores on the create path
CreatedRecord(params, t) ==
    [instanceId |-> createInstanceId(params.baseUrl),
     baseUrl |-> params.baseUrl,
     displayName |-> params.displayName,
     credentials |-> [username |-> params.username, password |-> params.password],
     createdAt |-> nowIso(t),
     updatedAt |-> nowIso(t),
     storageStatePath |-> storageStatePathOf(createInstanceId(params.baseUrl))]

\* InstanceStore.upsert: the three maps afterwards and the record returned
upsert(byId, byUrl, health, params, t) ==
    LET hasId == MapHas(byUrl, params.baseUrl)
        updates == hasId /\ MapHas(byId, byUrl[params.baseUrl])
        byUrl1 == IF hasId /\ ~updates THEN MapDelete(byUrl, params.baseUrl) ELSE byUrl
    IN  IF updates
        THEN LET updated == UpdatedRecord(byId[byUrl[params.baseUrl]], params, t)
             IN  [byId |-> MapSet(byId, updated.instanceId, updated),
                  byUrl |-> byUrl1,
                  health |-> ensureHealth(health, updated.instanceId, t),
                  instance |-> updated]
        ELSE LET created == CreatedRecord(params, t)
             IN  [byId |-> MapSet(byId, created.instanceId, created),
                  byUrl |-> MapSet(byUrl1, params.baseUrl, created.instanceId),
                  health |-> ensureHealth(health, created.instanceId, t),
                  instance |-> created]

UpsertParams(urls, users, pws, names) ==
    [baseUrl : urls, username : users, password : pws, displayName : names]

(***************************************************************************)
(* services/syncService.ts                                                 *)
(***************************************************************************)
NoPayload == [instanceId |-> Null, fetchedAt |-> Null, modules |-> 0]

\* scraper.ts normalizeRawModules: the payload a scrape of `instance` yields
Payload(instanceId, t, modules) ==
    [instanceId |-> instanceId, fetchedAt |-> nowIso(t), modules |-> modules]

\* no execution of loginToStarface: neither for a sync nor for a login check
NoLogins == [sync |-> [c \in CallIds |-> "idle"], verify |-> [v \in VerifyIds |-> "idle"]]

IdleCall == [instanceId |-> Null, startedAt |-> 0, phase |-> "idle",
             stuck |-> FALSE, payload |-> NoPayload]

\* the pending syncInstance calls for an instance
ActiveCalls(instanceId) ==
    {c \in CallIds : calls[c].phase \in {"racing", "saving"} /\ calls[c].instanceId = instanceId}

FreeCalls == {c \in CallIds : calls[c].phase = "idle"}

\* `lastStarted && now - lastStarted < syncCooldownMs`
inCooldown(lastStartedMap, instanceId, t) ==
    /\ MapHas(lastStartedMap, instanceId)
    /\ lastStartedMap[instanceId] # 0
    /\ t - lastStartedMap[instanceId] < syncCooldownMs

\* the remaining wait rounded down instead of up
remainingSecondsFloor(lastStarted, t) == (syncCooldownMs - (t - lastStarted)) \div 1000

\* Math.ceil((syncCooldownMs - (now - lastStarted)) / 1000)
remainingSeconds(lastStarted, t) == Ceil(syncCooldownMs - (t - lastStarted), 1000)

\* admission with the cooldown test made before the in-flight test
admissionCooldownFirst(running, lastStartedMap, instanceId, t) ==
    IF inCooldown(lastStartedMap, instanceId, t) THEN "SYNC_RATE_LIMITED"
    ELSE IF instanceId \in running THEN "SYNC_IN_PROGRESS"
    ELSE "admitted"

\* admission with one in-flight marker and one cooldown for all instances
admissionGlobal(running, lastStartedMap, instanceId, t) ==
    IF running # {} THEN "SYNC_IN_PROGRESS"
    ELSE IF \E other \in DOMAIN lastStartedMap : inCooldown(lastStartedMap, other, t)
         THEN "SYNC_RATE_LIMITED"
    ELSE "admitted"

\* syncInstance up to its first await: which of the three ways it goes
admission(running, lastStartedMap, instanceId, t) ==
    IF instanceId \in running THEN "SYNC_IN_PROGRESS"
    ELSE IF inCooldown(lastStartedMap, instanceId, t) THEN "SYNC_RATE_LIMITED"
    ELSE "admitted"

\* a timer that is never armed
timerNeverExpires(startedAt, timeoutMs, t) == FALSE

\* withTimeout: the timer set at `startedAt` has expired at `t`
timerExpired(startedAt, timeoutMs, t) == t - startedAt >= timeoutMs

TimeoutError == AppError("INTERNAL_ERROR", "Sync-Timeout beim STARFACE-Scraping", 504)

\* the in-flight marker left in place
runningNeverCleared(running, instanceId) == running

\* `finally { this.runningInstances.delete(instance.instanceId) }`
runningAfterExit(running, instanceId) == running \ {instanceId}

\* no HTTP request
NoRequest ==
    [method |-> Null, path |-> Null, instanceId |-> Null, token |-> Null,
     origin |-> Null, limited |-> FALSE, malformed |-> FALSE, body |-> <<>>]

EvNone ==
    [op |-> "none", step |-> "none", instanceId |-> Null, call |-> 0,
     error |-> NoError, cause |-> NoError, exit |-> Null,
     waitSeconds |-> 0, summary |-> NoPayload, stuck |-> FALSE,
     pendingBefore |-> FALSE, admittedBefore |-> 0, at |-> 0,
     request |-> NoRequest, status |-> 0]

(***************************************************************************)
(* The state after construction (createApp): empty stores, no call pending *)
(***************************************************************************)
BlankPage == [url |-> "blank", form |-> FALSE, banner |-> FALSE]

NoLoginResult ==
    [status |-> "none", error |-> NoError, usedStorageState |-> FALSE,
     requiredSecondLogin |-> FALSE, step |-> "none"]

\* nothing done yet by a loginToStarface call that finds the artifact as `a`
NoTrace(a) ==
    [artifactAtStart |-> a, reuseChecked |-> FALSE, fresh |-> FALSE,
     freshReturned |-> FALSE, requiredSecondLogin |-> FALSE,
     writes |-> 0, submitsPrimary |-> 0, submitsAdmin |-> 0,
     choiceClicks |-> 0, adminClicks |-> 0]

LoginIdle ==
    /\ artifact = "absent"
    /\ lpc = "idle"
    /\ page = BlankPage
    /\ lres = NoLoginResult
    /\ ltrace = NoTrace("absent")

\* no planner or normalizer run
PlanIdle ==
    /\ ppc = "idle"
    /\ plannerModules = <<>>
    /\ selectedDate = [day |-> 0, ms |-> 0]
    /\ evaluatedBlocks = <<>>
    /\ conflicts = <<>>
    /\ dateInput = [iso |-> "", dow |-> 0]
    /\ evalRules = <<>>
    /\ timeRanges = <<>>
    /\ rawModules = <<>>
    /\ normalized = <<>>

OrchInit ==
    /\ now = TickMs
    /\ instancesById = EmptyMap
    /\ instancesByBaseUrl = EmptyMap
    /\ healthByInstanceId = EmptyMap
    /\ runningInstances = {}
    /\ lastSyncStartedAt = EmptyMap
    /\ payloadByInstanceId = EmptyMap
    /\ calls = [c \in CallIds |-> IdleCall]
    /\ verifies = [v \in VerifyIds |-> Null]
    /\ lastUpsert = EmptyMap
    /\ admittedAt = EmptyMap
    /\ ev = EvNone
    /\ lastSynced = EmptyMap

Init == OrchInit /\ LoginIdle /\ PlanIdle /\ logins = NoLogins

\* time passes
Tick ==
    /\ now + TickMs <= MaxNow
    /\ now' = now + TickMs
    /\ ev' = EvNone
    /\ UNCHANGED <<instancesById, instancesByBaseUrl, healthByInstanceId,
                   runningInstances, lastSyncStartedAt, payloadByInstanceId,
                   calls, verifies, lastUpsert, admittedAt>>
    /\ UNCHANGED <<lastSynced, loginVars, planVars>>

\* InstanceStore.upsert(params) applied to the stores
UpsertStores(params) ==
    LET r == upsert(instancesById, instancesByBaseUrl, healthByInstanceId, params, now)
    IN  /\ instancesById' = r.byId
        /\ instancesByBaseUrl' = r.byUrl
        /\ healthByInstanceId' = r.health
        /\ lastUpsert' = MapSet(lastUpsert, params.baseUrl, params)
        /\ ev' = [EvNone EXCEPT !.op = "upsert", !.step = "return",
                                !.instanceId = r.instance.instanceId, !.at = now]

\* a registration: InstanceStore.upsert alone
Upsert(params) ==
    /\ UpsertStores(params)
    /\ UNCHANGED <<now, runningInstances, lastSyncStartedAt, payloadByInstanceId,
                   calls, verifies, admittedAt>>
    /\ UNCHANGED <<lastSynced, loginVars, planVars>>

\* POST /api/instances: upsert, then verifyInstanceLogin up to its await
PostInstances(params) ==
    /\ UpsertStores(params)
    /\ \E v \in VerifyIds :
          /\ verifies[v] = Null
          /\ \A w \in VerifyIds : w < v => verifies[w] # Null
          /\ verifies' = [verifies EXCEPT ![v] = createInstanceId(params.baseUrl)]
    /\ UNCHANGED <<now, runningInstances, lastSyncStartedAt, payloadByInstanceId,
                   calls, admittedAt>>
    /\ UNCHANGED <<lastSynced, loginVars, planVars>>

\* verifyInstanceLogin: automation.verifyLogin resolved
VerifyResolves(v) ==
    /\ verifies[v] # Null
    /\ healthByInstanceId' = markLogin(healthByInstanceId, verifies[v], TRUE, now)
    /\ verifies' = [verifies EXCEPT ![v] = Null]
    /\ ev' = [EvNone EXCEPT !.op = "verifyInstanceLogin", !.step = "return",
                            !.instanceId = verifies[v], !.at = now]
    /\ UNCHANGED <<now, instancesById, instancesByBaseUrl, runningInstances,
                   lastSyncStartedAt, payloadByInstanceId, calls, lastUpsert, admittedAt>>
    /\ UNCHANGED <<lastSynced, loginVars, planVars>>

\* what verifyInstanceLogin throws when automation.verifyLogin rejected with `error`
verifyRethrown(error) == error

\* verifyInstanceLogin: automation.verifyLogin rejected
VerifyRejects(v, error) ==
    /\ verifies[v] # Null
    /\ verifies' = [verifies EXCEPT ![v] = Null]
    /\ ev' = [EvNone EXCEPT !.op = "verifyInstanceLogin", !.step = "throw",
                            !.instanceId = verifies[v], !.at = now,
                            !.error = verifyRethrown(error), !.cause = error]
    /\ UNCHANGED <<now, instancesById, instancesByBaseUrl, healthByInstanceId,
                   runningInstances, lastSyncStartedAt, payloadByInstanceId,
                   calls, lastUpsert, admittedAt>>
    /\ UNCHANGED <<lastSynced, loginVars, planVars>>

\* a syncInstance whose admission tests sit inside the try block: a rejected call
\* is recorded as a failed sync and its finally clears the in-flight marker
SyncInstanceCallInsideTry(instanceId) ==
    LET decision == admission(runningInstances, lastSyncStartedAt, instanceId, now)
        seen == [EvNone EXCEPT
                    !.op = "syncInstance", !.instanceId = instanceId, !.at = now,
                    !.pendingBefore = (ActiveCalls(instanceId) # {}),
                    !.admittedBefore =
                        IF MapHas(admittedAt, instanceId) THEN admittedAt[instanceId] ELSE 0]
    IN  /\ MapHas(instancesById, instanceId)
        /\ CASE decision = "SYNC_IN_PROGRESS" ->
                  /\ ev' = [seen EXCEPT !.step = "throw", !.exit = "rejected",
                              !.error = AppError("SYNC_IN_PROGRESS",
                                  "Fuer diese Instanz laeuft bereits ein Sync", 409)]
                  /\ healthByInstanceId' =
                         markSyncFailure(healthByInstanceId, instanceId, "SYNC_IN_PROGRESS",
                                         "Fuer diese Instanz laeuft bereits ein Sync", now)
                  /\ runningInstances' = runningInstances \ {instanceId}
                  /\ UNCHANGED <<lastSyncStartedAt, calls, admittedAt>>
             [] decision = "SYNC_RATE_LIMITED" ->
                  /\ ev' = [seen EXCEPT !.step = "throw", !.exit = "rejected",
                              !.waitSeconds =
                                  remainingSeconds(lastSyncStartedAt[instanceId], now),
                              !.error = AppError("SYNC_RATE_LIMITED",
                                  "Bitte Sekunden warten", 429)]
                  /\ healthByInstanceId' =
                         markSyncFailure(healthByInstanceId, instanceId, "SYNC_RATE_LIMITED",
                                         "Bitte Sekunden warten", now)
                  /\ UNCHANGED <<runningInstances, lastSyncStartedAt, calls, admittedAt>>
             [] OTHER ->
                  /\ now + syncTimeoutMs + TickMs <= MaxNow
                  /\ FreeCalls # {}
                  /\ \E stuck \in BOOLEAN :
                        LET c == CHOOSE x \in FreeCalls : \A y \in FreeCalls : x <= y
                        IN  /\ calls' = [calls EXCEPT ![c] =
                                    [instanceId |-> instanceId, startedAt |-> now,
                                     phase |-> "racing", stuck |-> stuck,
                                     payload |-> NoPayload]]
                            /\ ev' = [seen EXCEPT !.step = "admitted", !.call = c]
                  /\ runningInstances' = runningInstances \cup {instanceId}
                  /\ lastSyncStartedAt' = MapSet(lastSyncStartedAt, instanceId, now)
                  /\ admittedAt' = MapSet(admittedAt, instanceId, now)
                  /\ UNCHANGED healthByInstanceId
        /\ UNCHANGED <<now, instancesById, instancesByBaseUrl,
                       payloadByInstanceId, verifies, lastUpsert>>
        /\ UNCHANGED <<lastSynced, loginVars, planVars>>

\* syncInstance, from the call to the first await (or to the throw that rejects it)
SyncInstanceCall(instanceId) ==
    LET decision == admission(runningInstances, lastSyncStartedAt, instanceId, now)
        seen == [EvNone EXCEPT
                    !.op = "syncInstance", !.instanceId = instanceId, !.at = now,
                    !.pendingBefore = (ActiveCalls(instanceId) # {}),
                    !.admittedBefore =
                        IF MapHas(admittedAt, instanceId) THEN admittedAt[instanceId] ELSE 0]
    IN  /\ MapHas(instancesById, instanceId)
        /\ CASE decision = "SYNC_IN_PROGRESS" ->
                  /\ ev' = [seen EXCEPT !.step = "throw", !.exit = "rejected",
                              !.error = AppError("SYNC_IN_PROGRESS",
                                  "Fuer diese Instanz laeuft bereits ein Sync", 409)]
                  /\ UNCHANGED <<runningInstances, lastSyncStartedAt, calls, admittedAt>>
             [] decision = "SYNC_RATE_LIMITED" ->
                  /\ ev' = [seen EXCEPT !.step = "throw", !.exit = "rejected",
                              !.waitSeconds =
                                  remainingSeconds(lastSyncStartedAt[instanceId], now),
                              !.error = AppError("SYNC_RATE_LIMITED",
                                  "Bitte Sekunden warten", 429)]
                  /\ UNCHANGED <<runningInstances, lastSyncStartedAt, calls, admittedAt>>
             [] OTHER ->
                  /\ now + syncTimeoutMs + TickMs <= MaxNow
                  /\ FreeCalls # {}
                  /\ \E stuck \in BOOLEAN :
                        LET c == CHOOSE x \in FreeCalls : \A y \in FreeCalls : x <= y
                        IN  /\ calls' = [calls EXCEPT ![c] =
                                    [instanceId |-> instanceId, startedAt |-> now,
                                     phase |-> "racing", stuck |-> stuck,
                                     payload |-> NoPayload]]
                            /\ ev' = [seen EXCEPT !.step = "admitted", !.call = c]
                  /\ runningInstances' = runningInstances \cup {instanceId}
                  /\ lastSyncStartedAt' = MapSet(lastSyncStartedAt, instanceId, now)
                  /\ admittedAt' = MapSet(admittedAt, instanceId, now)
        /\ UNCHANGED <<now, instancesById, instancesByBaseUrl, healthByInstanceId,
                       payloadByInstanceId, verifies, lastUpsert>>
        /\ UNCHANGED <<lastSynced, loginVars, planVars>>

\* a failed attempt that also clears what the instance had stored
SyncFailureDropsPayload(c, error, exit) ==
    LET instanceId == calls[c].instanceId
        mapped == toAppError(error)
    IN  /\ healthByInstanceId' =
               markSyncFailure(healthByInstanceId, instanceId, mapped.code, mapped.message, now)
        /\ runningInstances' = runningAfterExit(runningInstances, instanceId)
        /\ calls' = [calls EXCEPT ![c] = IdleCall]
        /\ ev' = [EvNone EXCEPT !.op = "syncInstance", !.step = "throw",
                                !.instanceId = instanceId, !.call = c, !.at = now,
                                !.error = mapped, !.cause = error, !.exit = exit,
                                !.stuck = calls[c].stuck]
        /\ payloadByInstanceId' = MapDelete(payloadByInstanceId, instanceId)
        /\ UNCHANGED <<now, instancesById, instancesByBaseUrl, lastSyncStartedAt,
                       verifies, lastUpsert, admittedAt>>
        /\ UNCHANGED <<lastSynced, loginVars, planVars>>

\* the catch and finally blocks of syncInstance, for a call that ends with `error`
SyncFailure(c, error, exit) ==
    LET instanceId == calls[c].instanceId
        mapped == toAppError(error)
    IN  /\ healthByInstanceId' =
               markSyncFailure(healthByInstanceId, instanceId, mapped.code, mapped.message, now)
        /\ runningInstances' = runningAfterExit(runningInstances, instanceId)
        /\ calls' = [calls EXCEPT ![c] = IdleCall]
        /\ ev' = [EvNone EXCEPT !.op = "syncInstance", !.step = "throw",
                                !.instanceId = instanceId, !.call = c, !.at = now,
                                !.error = mapped, !.cause = error, !.exit = exit,
                                !.stuck = calls[c].stuck]
        /\ UNCHANGED <<now, instancesById, instancesByBaseUrl, lastSyncStartedAt,
                       payloadByInstanceId, verifies, lastUpsert, admittedAt>>
        /\ UNCHANGED <<lastSynced, loginVars, planVars>>

\* automation.scrapeModules resolved first: withTimeout returns the payload and
\* syncInstance goes on to await syncResultStore.save(payload)
ScrapeResolves(c, modules) ==
    /\ calls[c].phase = "racing"
    /\ ~calls[c].stuck
    /\ calls' = [calls EXCEPT ![c].phase = "saving",
                              ![c].payload = Payload(calls[c].instanceId, now, modules)]
    /\ ev' = EvNone
    /\ UNCHANGED <<now, instancesById, instancesByBaseUrl, healthByInstanceId,
                   runningInstances, lastSyncStartedAt, payloadByInstanceId,
                   verifies, lastUpsert, admittedAt>>
    /\ UNCHANGED <<lastSynced, loginVars, planVars>>

\* automation.scrapeModules rejected first
ScrapeRejects(c, error) ==
    /\ calls[c].phase = "racing"
    /\ ~calls[c].stuck
    /\ SyncFailure(c, error, "pipelineError")

\* the timer of withTimeout fired first
TimeoutFires(c) ==
    /\ calls[c].phase = "racing"
    /\ timerExpired(calls[c].startedAt, syncTimeoutMs, now)
    /\ SyncFailure(c, TimeoutError, "timeout")

\* SyncResultStore.save: the store afterwards (one payload per instance, replaced whole)
save(store, payload) == MapSet(store, payload.instanceId, payload)

\* syncResultStore.save resolved: markSyncSuccess, return the SyncSummary, finally
SaveResolves(c) ==
    LET instanceId == calls[c].instanceId
        payload == calls[c].payload
    IN  /\ calls[c].phase = "saving"
        /\ payloadByInstanceId' = save(payloadByInstanceId, payload)
        /\ healthByInstanceId' =
               markSyncSuccess(healthByInstanceId, instanceId, payload.fetchedAt, now)
        /\ runningInstances' = runningAfterExit(runningInstances, instanceId)
        /\ calls' = [calls EXCEPT ![c] = IdleCall]
        /\ ev' = [EvNone EXCEPT !.op = "syncInstance", !.step = "return",
                                !.instanceId = instanceId, !.call = c, !.at = now,
                                !.exit = "success",
                                !.summary = [instanceId |-> instanceId,
                                             fetchedAt |-> payload.fetchedAt,
                                             modules |-> payload.modules]]
        /\ lastSynced' = MapSet(lastSynced, instanceId, payload)
        /\ UNCHANGED <<now, instancesById, instancesByBaseUrl, lastSyncStartedAt,
                       verifies, lastUpsert, admittedAt>>
        /\ UNCHANGED <<loginVars, planVars>>

\* syncResultStore.save rejected
SaveRejects(c, error) ==
    /\ calls[c].phase = "saving"
    /\ SyncFailure(c, error, "saveError")

\* the registrations the orchestrator is exercised with
OrchParams == UpsertParams({"https://a.starface-cloud.com"}, {"admin"}, {"pw1"}, {Undefined})

Next ==
    \/ Tick /\ UNCHANGED logins
    \/ \E params \in OrchParams : PostInstances(params) /\ UNCHANGED logins
    \/ \E v \in VerifyIds : VerifyResolves(v) /\ UNCHANGED logins
    \/ \E v \in VerifyIds, error \in LoginErrors : VerifyRejects(v, error) /\ UNCHANGED logins
    \/ \E instanceId \in InstanceIds : SyncInstanceCall(instanceId) /\ UNCHANGED logins
    \/ \E c \in CallIds, modules \in 1..MaxModules : ScrapeResolves(c, modules) /\ UNCHANGED logins
    \/ \E c \in CallIds, error \in PipelineErrors : ScrapeRejects(c, error) /\ UNCHANGED logins
    \/ \E c \in CallIds : TimeoutFires(c) /\ UNCHANGED logins
    \/ \E c \in CallIds : SaveResolves(c) /\ UNCHANGED logins
    \/ \E c \in CallIds, error \in SaveErrors : SaveRejects(c, error) /\ UNCHANGED logins

Spec == Init /\ [][Next]_vars

\* the specification with what Node's timers and clock guarantee: time passes and
\* a timer that is due fires
FairSpec ==
    /\ Init /\ [][Next]_vars
    /\ WF_vars(Tick /\ UNCHANGED logins)
    /\ \A c \in CallIds : WF_vars(TimeoutFires(c) /\ UNCHANGED logins)

(***************************************************************************)
(* Properties of SyncService                                               *)
(***************************************************************************)
\* the step just taken was a syncInstance call reaching its decision
SyncCallMade ==
    ev.op = "syncInstance" /\ (ev.step = "admitted" \/ ev.exit = "rejected")

SyncCallMadeNext ==
    ev'.op = "syncInstance" /\ (ev'.step = "admitted" \/ ev'.exit = "rejected")

\* C1: single-flight per instance. At most one admitted syncInstance call per
\* instance is pending at any time; a syncInstance call made while one is pending
\* throws SYNC_IN_PROGRESS (409), also when the cooldown would reject it too, and
\* neither starts a pipeline nor touches the pending call.
C1_SingleFlight ==
    /\ [](\A i \in InstanceIds : Cardinality(ActiveCalls(i)) <= 1)
    /\ [][ \A i \in InstanceIds :
             (ActiveCalls(i) # {} /\ SyncCallMadeNext /\ ev'.instanceId = i)
             => /\ ev'.step = "throw"
                /\ ev'.error.code = "SYNC_IN_PROGRESS"
                /\ ev'.error.status = 409
                /\ calls' = calls
                /\ runningInstances' = runningInstances ]_vars

\* a call was rejected as in flight although the cooldown had not elapsed either
C1_Witness ==
    /\ SyncCallMade
    /\ ev.pendingBefore
    /\ ev.error.code = "SYNC_IN_PROGRESS"
    /\ ev.at - ev.admittedBefore < syncCooldownMs
    /\ Cardinality(ActiveCalls(ev.instanceId)) = 1

\* C2: the in-flight marker is cleared on every exit path. An instance with no
\* pending syncInstance call is not in runningInstances, and a call is rejected
\* with SYNC_IN_PROGRESS only if a call for the instance was pending.
C2_MarkerCleared ==
    /\ \A i \in InstanceIds : ActiveCalls(i) = {} => i \notin runningInstances
    /\ (SyncCallMade /\ ev.error.code = "SYNC_IN_PROGRESS") => ev.pendingBefore

\* a call ended because persisting the payload failed, and the marker is gone
C2_Witness ==
    /\ ev.op = "syncInstance"
    /\ ev.step = "throw"
    /\ ev.exit = "saveError"
    /\ ev.instanceId \notin runningInstances

\* C3: cooldown. A syncInstance call made with no sync of the instance pending and
\* less than syncCooldownMs after the most recent admission throws
\* SYNC_RATE_LIMITED (429) with a wait of ceil(remaining / 1000) >= 1 seconds;
\* made at or after the cooldown has elapsed (or with no earlier sync) it is admitted.
C3_Cooldown ==
    (SyncCallMade /\ ~ev.pendingBefore) =>
        LET remaining == syncCooldownMs - (ev.at - ev.admittedBefore)
        IN  IF ev.admittedBefore # 0 /\ remaining > 0
            THEN /\ ev.step = "throw"
                 /\ ev.error.code = "SYNC_RATE_LIMITED"
                 /\ ev.error.status = 429
                 /\ ev.waitSeconds >= 1
                 /\ ev.waitSeconds * 1000 >= remaining
                 /\ (ev.waitSeconds - 1) * 1000 < remaining
            ELSE ev.step = "admitted"

\* a call was rate limited after the earlier sync had ended, with a remaining
\* wait that is not a whole number of seconds
C3_Witness ==
    /\ SyncCallMade
    /\ ~ev.pendingBefore
    /\ ev.error.code = "SYNC_RATE_LIMITED"
    /\ ev.at > ev.admittedBefore
    /\ (syncCooldownMs - (ev.at - ev.admittedBefore)) % 1000 # 0
    /\ ev.waitSeconds >= 1

\* C4: the sync timeout bounds the whole pipeline. A pending call whose pipeline
\* never settles ends with the timeout error (INTERNAL_ERROR, 504).
C4_TimeoutBoundsPipeline ==
    \A c \in CallIds :
        (calls[c].phase = "racing" /\ calls[c].stuck)
        ~> (/\ ev.op = "syncInstance" /\ ev.step = "throw" /\ ev.call = c
            /\ ev.exit = "timeout" /\ ev.error = TimeoutError
            /\ calls[c].phase = "idle")

\* a call whose pipeline never settles was ended by the timer
C4_Witness ==
    /\ ev.op = "syncInstance"
    /\ ev.exit = "timeout"
    /\ ev.stuck
    /\ ev.error.status = 504
    /\ ActiveCalls(ev.instanceId) = {}

\* the step just taken ended an admitted syncInstance call with an error
SyncFailed == ev.op = "syncInstance" /\ ev.step = "throw" /\ ev.exit # "rejected"

\* C5: when an admitted call fails, health carries the code and message of the
\* error the caller receives, and a typed pipeline failure keeps its own code.
C5_FailureRecorded ==
    SyncFailed =>
        /\ MapHas(healthByInstanceId, ev.instanceId)
        /\ healthByInstanceId[ev.instanceId].lastErrorCode = ev.error.code
        /\ healthByInstanceId[ev.instanceId].lastError = ev.error.message
        /\ isAppError(ev.cause) => ev.error = ev.cause

\* a typed login failure of the pipeline reached health with its own code
C5_Witness ==
    /\ SyncFailed
    /\ ev.exit = "pipelineError"
    /\ ev.cause.code = "OAUTH_LOGIN_FAILED"
    /\ healthByInstanceId[ev.instanceId].lastErrorCode = "OAUTH_LOGIN_FAILED"

\* C6: a SyncSummary is returned only after the payload is persisted and health
\* marked successful; with no sync of an instance pending, a non-null
\* lastSuccessfulSyncAt is the fetchedAt of the stored payload.
C6_SuccessRecorded ==
    /\ (ev.op = "syncInstance" /\ ev.step = "return") =>
          /\ MapHas(payloadByInstanceId, ev.instanceId)
          /\ payloadByInstanceId[ev.instanceId].fetchedAt = ev.summary.fetchedAt
          /\ payloadByInstanceId[ev.instanceId].modules = ev.summary.modules
          /\ healthByInstanceId[ev.instanceId].lastSuccessfulSyncAt = ev.summary.fetchedAt
          /\ healthByInstanceId[ev.instanceId].lastError = Null
          /\ healthByInstanceId[ev.instanceId].lastErrorCode = Null
    /\ \A i \in DOMAIN healthByInstanceId :
          (ActiveCalls(i) = {} /\ healthByInstanceId[i].lastSuccessfulSyncAt # Null) =>
              /\ MapHas(payloadByInstanceId, i)
              /\ payloadByInstanceId[i].fetchedAt = healthByInstanceId[i].lastSuccessfulSyncAt

\* a sync returned whose payload was fetched before the save finished, after an
\* earlier sync of the instance had failed
C6_Witness ==
    /\ ev.op = "syncInstance"
    /\ ev.step = "return"
    /\ ev.summary.fetchedAt # nowIso(now)
    /\ healthByInstanceId[ev.instanceId].lastSuccessfulSyncAt = ev.summary.fetchedAt
    /\ admittedAt[ev.instanceId] > TickMs

\* C7: verifyInstanceLogin. After a successful call loginOk is true; a failed call
\* hands the acquirer's error to its caller unchanged and leaves the health
\* records as they were.
C7_VerifyLogin ==
    /\ []((ev.op = "verifyInstanceLogin" /\ ev.step = "return")
            => healthByInstanceId[ev.instanceId].loginOk)
    /\ [][ (ev'.op = "verifyInstanceLogin" /\ ev'.step = "throw")
             => (ev'.error = ev'.cause /\ healthByInstanceId' = healthByInstanceId) ]_vars

\* a login check failed with an untyped error after an earlier one had succeeded
C7_Witness ==
    /\ ev.op = "verifyInstanceLogin"
    /\ ev.step = "throw"
    /\ ev.error.kind = "Error"
    /\ healthByInstanceId[ev.instanceId].loginOk

(***************************************************************************)
(* The instance registry on its own: registrations and time                *)
(***************************************************************************)
RegistryParams == UpsertParams(BaseUrls, Usernames, Passwords, DisplayNames)

RegistryNext ==
    \/ Tick /\ UNCHANGED logins
    \/ \E params \in RegistryParams : Upsert(params) /\ UNCHANGED logins

RegistrySpec == Init /\ [][RegistryNext]_vars

\* C8: registration is an upsert keyed by base URL. There is exactly one record
\* per base URL registered so far, reachable through the URL; its credentials are
\* the username/password pair of the most recent upsert for that URL; and a
\* record, once created, keeps its instanceId, createdAt and storageStatePath.
C8_UpsertByBaseUrl ==
    /\ [](/\ DOMAIN instancesByBaseUrl = DOMAIN lastUpsert
          /\ Cardinality(DOMAIN instancesById) = Cardinality(DOMAIN lastUpsert)
          /\ \A u \in DOMAIN lastUpsert :
                /\ MapHas(instancesById, instancesByBaseUrl[u])
                /\ instancesById[instancesByBaseUrl[u]].baseUrl = u
                /\ instancesById[instancesByBaseUrl[u]].instanceId = instancesByBaseUrl[u]
                /\ instancesById[instancesByBaseUrl[u]].credentials =
                       [username |-> lastUpsert[u].username,
                        password |-> lastUpsert[u].password])
    /\ [][ \A id \in DOMAIN instancesById :
             /\ MapHas(instancesById', id)
             /\ instancesById'[id].instanceId = instancesById[id].instanceId
             /\ instancesById'[id].createdAt = instancesById[id].createdAt
             /\ instancesById'[id].storageStatePath = instancesById[id].storageStatePath
             /\ instancesById'[id].baseUrl = instancesById[id].baseUrl ]_vars

\* both base URLs are registered; one was registered again, later, and holds
\* the pair root/pw2 while the other holds admin/pw1
C8_Witness ==
    /\ ev.op = "upsert"
    /\ Cardinality(DOMAIN instancesById) = 2
    /\ instancesById[ev.instanceId].updatedAt # instancesById[ev.instanceId].createdAt
    /\ instancesById[ev.instanceId].credentials = [username |-> "root", password |-> "pw2"]
    /\ \E id \in DOMAIN instancesById :
          instancesById[id].credentials = [username |-> "admin", password |-> "pw1"]

(***************************************************************************)
(* starface/login.ts: loginToStarface                                      *)
(***************************************************************************)
\* what page.url() can be: the tenant's entry page, the OAuth realm
\* (/auth/realms/pbx), the user interface (/?ui), the administration
\* (/config/display.do)
UrlKinds == {"entry", "oauth", "ui", "config"}

Pages == [url : UrlKinds, form : BOOLEAN, banner : BOOLEAN]

isOauthUrl(url) == url = "oauth"
isUiUrl(url) == url = "ui"
isConfigDisplayUrl(url) == url = "config"
hasOauthForm(p) == p.form
hasLoginError(p) == p.banner

\* the states of the file at storageStatePath: none, one written by
\* context.storageState, one that newContext cannot load
Artifacts == {"absent", "session", "garbage"}

\* the session state saved after a reused session as well
afterReuseCheckPersist(p) ==
    IF hasOauthForm(p) THEN "fresh.open"
    ELSE IF ~isConfigDisplayUrl(p.url) THEN "fresh.open"
    ELSE "persist"

\* the reused session accepted as soon as no login form shows, wherever the
\* browser is
afterReuseCheckIgnoresUrl(p) ==
    IF hasOauthForm(p) THEN "fresh.open"
    ELSE "done"

\* reuseStorageState after the navigation: "done" if the context is reused,
\* "fresh.open" if it is closed and null returned
afterReuseCheck(p) ==
    IF hasOauthForm(p) THEN "fresh.open"
    ELSE IF ~isConfigDisplayUrl(p.url) THEN "fresh.open"
    ELSE "done"

\* the catch block of loginToStarface: browser.close(), rethrow
LoginFails(error) ==
    /\ lres' = [NoLoginResult EXCEPT !.status = "failed", !.error = error,
                                     !.step = lpc]
    /\ lpc' = "done"

\* loginToStarface is called
LoginCall ==
    /\ lpc \in {"idle", "done"}
    /\ lpc' = "launch"
    /\ page' = BlankPage
    /\ lres' = NoLoginResult
    /\ ltrace' = NoTrace(artifact)
    /\ UNCHANGED artifact
    /\ UNCHANGED <<orchVars, planVars>>

\* ensureDirectory and chromium.launch, which are outside the try block
Launch(ok) ==
    /\ lpc = "launch"
    /\ IF ok
       THEN lpc' = "reuseCheck" /\ UNCHANGED lres
       ELSE LoginFails(PlainError("browserType.launch: failed"))
    /\ UNCHANGED <<artifact, page, ltrace>>
    /\ UNCHANGED <<orchVars, planVars>>

\* reuseStorageState up to the end of page.goto(adminUrl)
ReuseCheck(gotoOk, p) ==
    /\ lpc = "reuseCheck"
    /\ ltrace' = [ltrace EXCEPT !.reuseChecked = TRUE]
    /\ CASE artifact = "absent" ->
              /\ lpc' = "fresh.open"
              /\ UNCHANGED <<page, lres>>
         [] artifact = "garbage" ->
              /\ LoginFails(PlainError("browser.newContext: storageState unreadable"))
              /\ UNCHANGED page
         [] OTHER ->
              IF gotoOk
              THEN /\ page' = p
                   /\ lpc' = "reuse.loaded"
                   /\ UNCHANGED lres
              ELSE /\ LoginFails(PlainError("page.goto: Timeout exceeded"))
                   /\ UNCHANGED page
    /\ UNCHANGED artifact
    /\ UNCHANGED <<orchVars, planVars>>

\* reuseStorageState from hasOauthForm on, and loginToStarface's `if (reused)`
ReuseVerdict ==
    /\ lpc = "reuse.loaded"
    /\ lpc' = afterReuseCheck(page)
    /\ lres' = IF afterReuseCheck(page) = "done"
               THEN [NoLoginResult EXCEPT !.status = "ok", !.usedStorageState = TRUE]
               ELSE lres
    /\ UNCHANGED <<artifact, page, ltrace>>
    /\ UNCHANGED <<orchVars, planVars>>

\* runFreshLoginV10, step 1: new context, page.goto(baseUrl)
FreshOpen(gotoOk, p) ==
    /\ lpc = "fresh.open"
    /\ ltrace' = [ltrace EXCEPT !.fresh = TRUE]
    /\ IF gotoOk
       THEN page' = p /\ lpc' = "fresh.opened" /\ UNCHANGED lres
       ELSE LoginFails(PlainError("page.goto: Timeout exceeded")) /\ page' = BlankPage
    /\ UNCHANGED artifact
    /\ UNCHANGED <<orchVars, planVars>>

\* runFreshLoginV10, step 2: the administrator choice, if the page needs it
AdminChoice(found, p) ==
    /\ lpc = "fresh.opened"
    /\ IF ~isUiUrl(page.url) /\ ~isConfigDisplayUrl(page.url) /\ ~hasOauthForm(page)
       THEN IF ~found
            THEN /\ LoginFails(AppError("ADMIN_CHOICE_NOT_FOUND",
                        "Admin-Auswahl wurde nicht gefunden", 502))
                 /\ UNCHANGED <<page, ltrace>>
            ELSE /\ page' = p
                 /\ ltrace' = [ltrace EXCEPT !.choiceClicks = @ + 1]
                 /\ IF isOauthUrl(p.url) \/ isUiUrl(p.url) \/ hasOauthForm(p)
                    THEN lpc' = "fresh.step3" /\ UNCHANGED lres
                    ELSE LoginFails(AppError("OAUTH_FORM_NOT_FOUND",
                            "OAuth Loginformular nach Admin-Auswahl nicht gefunden", 502))
       ELSE /\ lpc' = "fresh.step3"
            /\ UNCHANGED <<page, lres, ltrace>>
    /\ UNCHANGED artifact
    /\ UNCHANGED <<orchVars, planVars>>

\* submitOauthForm and the wait after it, as seen on the page `p` that results:
\* the error thrown, or NoError
primaryAuthError(p) ==
    IF hasLoginError(p)
    THEN AppError("OAUTH_LOGIN_FAILED", "OAuth Login wurde von STARFACE abgelehnt", 401)
    ELSE IF ~(isUiUrl(p.url) \/ isConfigDisplayUrl(p.url) \/ isOauthUrl(p.url))
    THEN AppError("OAUTH_LOGIN_FAILED", "OAuth Login war nicht erfolgreich", 401)
    ELSE IF isOauthUrl(p.url) /\ hasOauthForm(p)
    THEN AppError("OAUTH_LOGIN_FAILED", "OAuth Login blieb auf der Anmeldeseite", 401)
    ELSE NoError

\* runFreshLoginV10, steps 3 and 4: the primary OAuth login
PrimaryAuth(p) ==
    /\ lpc = "fresh.step3"
    /\ IF ~isUiUrl(page.url) /\ ~isConfigDisplayUrl(page.url)
       THEN IF ~hasOauthForm(page)
            THEN /\ LoginFails(AppError("OAUTH_FORM_NOT_FOUND",
                        "OAuth Loginformular wurde nicht erkannt", 502))
                 /\ UNCHANGED <<page, ltrace>>
            ELSE /\ page' = p
                 /\ ltrace' = [ltrace EXCEPT !.submitsPrimary = @ + 1]
                 /\ IF primaryAuthError(p) = NoError
                    THEN lpc' = "fresh.step5" /\ UNCHANGED lres
                    ELSE LoginFails(primaryAuthError(p))
       ELSE /\ lpc' = "fresh.step5"
            /\ UNCHANGED <<page, lres, ltrace>>
    /\ UNCHANGED artifact
    /\ UNCHANGED <<orchVars, planVars>>

\* runFreshLoginV10, step 5: the Administration button and the wait after it
AdministrationEntry(found, p) ==
    /\ lpc = "fresh.step5"
    /\ IF ~isConfigDisplayUrl(page.url)
       THEN IF ~found
            THEN /\ LoginFails(AppError("ADMIN_BUTTON_NOT_FOUND",
                        "Administration Button wurde auf /?ui nicht gefunden", 502))
                 /\ UNCHANGED <<page, ltrace>>
            ELSE /\ page' = p
                 /\ IF ~(isConfigDisplayUrl(p.url) \/ isOauthUrl(p.url))
                    THEN /\ LoginFails(AppError("ADMIN_REDIRECT_FAILED",
                              "Nach Klick auf Administration wurde /config/display.do nicht erreicht", 502))
                         /\ ltrace' = [ltrace EXCEPT !.adminClicks = @ + 1]
                    ELSE IF isOauthUrl(p.url)
                    THEN /\ ltrace' = [ltrace EXCEPT !.requiredSecondLogin = TRUE,
                                                      !.adminClicks = @ + 1]
                         /\ IF ~hasOauthForm(p)
                            THEN LoginFails(AppError("OAUTH_FORM_NOT_FOUND",
                                    "Zweites OAuth Formular im Admin-Kontext nicht gefunden", 502))
                            ELSE lpc' = "fresh.second" /\ UNCHANGED lres
                    ELSE /\ lpc' = "fresh.final"
                         /\ ltrace' = [ltrace EXCEPT !.adminClicks = @ + 1]
                         /\ UNCHANGED lres
       ELSE /\ lpc' = "fresh.final"
            /\ UNCHANGED <<page, lres, ltrace>>
    /\ UNCHANGED artifact
    /\ UNCHANGED <<orchVars, planVars>>

\* the second login submitted again when the administration is not reached
SecondAuthRetries(p) ==
    /\ lpc = "fresh.second"
    /\ page' = p
    /\ ltrace' = [ltrace EXCEPT !.submitsAdmin = @ + 1]
    /\ IF hasLoginError(p)
       THEN LoginFails(AppError("OAUTH_LOGIN_FAILED",
                "OAuth Login wurde von STARFACE abgelehnt", 401))
       ELSE IF ~isConfigDisplayUrl(p.url)
       THEN lpc' = "fresh.second" /\ UNCHANGED lres
       ELSE lpc' = "fresh.final" /\ UNCHANGED lres
    /\ UNCHANGED artifact
    /\ UNCHANGED <<orchVars, planVars>>

\* runFreshLoginV10, step 6: the second OAuth login, in the admin context
SecondAuth(p) ==
    /\ lpc = "fresh.second"
    /\ page' = p
    /\ ltrace' = [ltrace EXCEPT !.submitsAdmin = @ + 1]
    /\ IF hasLoginError(p)
       THEN LoginFails(AppError("OAUTH_LOGIN_FAILED",
                "OAuth Login wurde von STARFACE abgelehnt", 401))
       ELSE IF ~isConfigDisplayUrl(p.url)
       THEN LoginFails(AppError("ADMIN_REDIRECT_FAILED",
                "Nach zweitem Login wurde /config/display.do nicht erreicht", 502))
       ELSE lpc' = "fresh.final" /\ UNCHANGED lres
    /\ UNCHANGED artifact
    /\ UNCHANGED <<orchVars, planVars>>

\* runFreshLoginV10: the last test of the URL, and the return
FreshReturn ==
    /\ lpc = "fresh.final"
    /\ IF ~isConfigDisplayUrl(page.url)
       THEN /\ LoginFails(AppError("ADMIN_REDIRECT_FAILED",
                  "Login abgeschlossen, aber /config/display.do wurde nicht erreicht", 502))
            /\ UNCHANGED ltrace
       ELSE /\ lpc' = "persist"
            /\ ltrace' = [ltrace EXCEPT !.freshReturned = TRUE]
            /\ UNCHANGED lres
    /\ UNCHANGED <<artifact, page>>
    /\ UNCHANGED <<orchVars, planVars>>

\* loginToStarface after runFreshLoginV10 returned:
\* fresh.context.storageState({ path: storageStatePath }), then the return
Persist(writeOk) ==
    /\ lpc = "persist"
    /\ IF writeOk
       THEN /\ artifact' = "session"
            /\ ltrace' = [ltrace EXCEPT !.writes = @ + 1]
            /\ lres' = [NoLoginResult EXCEPT
                          !.status = "ok", !.usedStorageState = FALSE,
                          !.requiredSecondLogin = ltrace.requiredSecondLogin]
            /\ lpc' = "done"
       ELSE /\ LoginFails(PlainError("context.storageState: write failed"))
            /\ UNCHANGED <<artifact, ltrace>>
    /\ UNCHANGED page
    /\ UNCHANGED <<orchVars, planVars>>

\* one instance, with each state its artifact can be in, and loginToStarface
\* called for it any number of times
LoginInit ==
    /\ OrchInit
    /\ PlanIdle
    /\ artifact \in Artifacts
    /\ lpc = "idle"
    /\ page = BlankPage
    /\ lres = NoLoginResult
    /\ ltrace = NoTrace(artifact)
    /\ logins = NoLogins

LoginNext ==
    \/ LoginCall /\ UNCHANGED logins
    \/ \E ok \in BOOLEAN : Launch(ok) /\ UNCHANGED logins
    \/ \E gotoOk \in BOOLEAN, p \in Pages : ReuseCheck(gotoOk, p) /\ UNCHANGED logins
    \/ ReuseVerdict /\ UNCHANGED logins
    \/ \E gotoOk \in BOOLEAN, p \in Pages : FreshOpen(gotoOk, p) /\ UNCHANGED logins
    \/ \E found \in BOOLEAN, p \in Pages : AdminChoice(found, p) /\ UNCHANGED logins
    \/ \E p \in Pages : PrimaryAuth(p) /\ UNCHANGED logins
    \/ \E found \in BOOLEAN, p \in Pages : AdministrationEntry(found, p) /\ UNCHANGED logins
    \/ \E p \in Pages : SecondAuth(p) /\ UNCHANGED logins
    \/ FreshReturn /\ UNCHANGED logins
    \/ \E writeOk \in BOOLEAN : Persist(writeOk) /\ UNCHANGED logins

LoginSpec == LoginInit /\ [][LoginNext]_vars

\* C9: the session artifact is written only at the end of a successful fresh
\* login, in the step that makes loginToStarface return that success: a call that
\* ended has written the artifact once if it returned a fresh session, and not at
\* all if it failed or returned the reused session.
C9_ArtifactWrittenOnFreshSuccess ==
    /\ [](lpc = "done" =>
            /\ (lres.status = "ok" /\ ~lres.usedStorageState)
                  => (ltrace.writes = 1 /\ ltrace.freshReturned /\ artifact = "session")
            /\ (lres.status = "failed" \/ lres.usedStorageState) => ltrace.writes = 0)
    /\ [][ (ltrace'.writes > ltrace.writes \/ artifact' # artifact)
             => /\ ltrace.freshReturned
                /\ lpc' = "done"
                /\ lres'.status = "ok"
                /\ ~lres'.usedStorageState ]_vars

\* a fresh login succeeded after the stored session had been found invalid, and
\* wrote the artifact
C9_Witness ==
    /\ lpc = "done"
    /\ lres.status = "ok"
    /\ ~lres.usedStorageState
    /\ ltrace.artifactAtStart = "session"
    /\ ltrace.writes = 1
    /\ artifact = "session"

\* C10: session reuse is never a correctness dependency. When the artifact exists
\* and the reuse check, once begun, does not end in a reused session, the fresh
\* login is run; so a login that failed has run the fresh login.
C10_ReuseNeverRequired ==
    (/\ lpc = "done"
     /\ ltrace.artifactAtStart # "absent"
     /\ ltrace.reuseChecked
     /\ ~(lres.status = "ok" /\ lres.usedStorageState))
    => ltrace.fresh

\* the codes runFreshLoginV10 and submitOauthForm throw
LoginCodes ==
    {"ADMIN_CHOICE_NOT_FOUND", "OAUTH_FORM_NOT_FOUND", "OAUTH_LOGIN_FAILED",
     "ADMIN_BUTTON_NOT_FOUND", "ADMIN_REDIRECT_FAILED"}

LoginSucceeded == lpc = "done" /\ lres.status = "ok"

C12_BannerClassifiesFailure ==
    (/\ lpc = "done"
     /\ lres.status = "failed"
     /\ lres.step = "fresh.step3"
     /\ ltrace.submitsPrimary = 1
     /\ ~(isUiUrl(page.url) \/ isConfigDisplayUrl(page.url)))
    => /\ isAppError(lres.error)
       /\ hasLoginError(page) => lres.error.code = "OAUTH_LOGIN_FAILED"
       /\ ~hasLoginError(page) =>
             lres.error.code \in LoginCodes \ {"OAUTH_LOGIN_FAILED"}

\* C13 as stated: no step is retried, the second submission follows the click on
\* the administration control and the challenge, and whenever the administration
\* is not reached after the second submission the code is ADMIN_REDIRECT_FAILED.
C13_NoRetryRedirectFailed ==
    /\ ltrace.submitsPrimary <= 1
    /\ ltrace.submitsAdmin <= 1
    /\ ltrace.submitsAdmin = 1 =>
          ltrace.adminClicks = 1 /\ ltrace.requiredSecondLogin
    /\ (lpc = "done" /\ ltrace.submitsAdmin = 1 /\ ~isConfigDisplayUrl(page.url))
          => /\ lres.status = "failed"
             /\ lres.error.code = "ADMIN_REDIRECT_FAILED"

\* C13 amended: as above, but after the second submission an error banner is
\* reported as OAUTH_LOGIN_FAILED (wherever the browser is), and only a missed
\* destination without banner as ADMIN_REDIRECT_FAILED; in both cases the call
\* ends there.
C13_NoRetry ==
    /\ ltrace.submitsPrimary <= 1
    /\ ltrace.submitsAdmin <= 1
    /\ ltrace.choiceClicks <= 1
    /\ ltrace.adminClicks <= 1
    /\ ltrace.submitsAdmin = 1 =>
          ltrace.adminClicks = 1 /\ ltrace.requiredSecondLogin
    /\ (lpc = "done" /\ ltrace.submitsAdmin = 1 /\ ~isConfigDisplayUrl(page.url))
          => /\ lres.status = "failed"
             /\ lres.step = "fresh.second"
             /\ lres.error.code =
                   IF hasLoginError(page) THEN "OAUTH_LOGIN_FAILED"
                   ELSE "ADMIN_REDIRECT_FAILED"
    /\ (lpc = "done" /\ ltrace.submitsAdmin = 1 /\ hasLoginError(page))
          => lres.status = "failed" /\ lres.error.code = "OAUTH_LOGIN_FAILED"

\* the second login was submitted once, the administration was not reached and
\* the call ended with ADMIN_REDIRECT_FAILED
C13_Witness ==
    /\ lpc = "done"
    /\ ltrace.submitsPrimary = 1
    /\ ltrace.submitsAdmin = 1
    /\ ~isConfigDisplayUrl(page.url)
    /\ lres.status = "failed"
    /\ lres.error.code = "ADMIN_REDIRECT_FAILED"

(***************************************************************************)
(* JavaScript strings and dates, as far as the planner and the parser use  *)
(* them. A string is a TLA+ string; s[i] of JavaScript is CharAt(s, i + 1).*)
(***************************************************************************)
CharAt(s, i) == SubSeq(s, i, i)

Digits == "0123456789"

isDigit(ch) == \E k \in 1..Len(Digits) : CharAt(Digits, k) = ch

DigitValue(ch) == (CHOOSE k \in 1..Len(Digits) : CharAt(Digits, k) = ch) - 1

\* Number(value) is NaN
NaN == -1

RECURSIVE DigitsValue(_)
DigitsValue(s) ==
    IF s = "" THEN 0
    ELSE DigitsValue(SubSeq(s, 1, Len(s) - 1)) * 10 + DigitValue(CharAt(s, Len(s)))

\* Number(s) for a string of decimal digits (the empty string is 0); NaN otherwise
Number(s) ==
    IF \A i \in 1..Len(s) : isDigit(CharAt(s, i)) THEN DigitsValue(s) ELSE NaN

\* s.split(sep) for a separator of one character
RECURSIVE split(_, _)
split(s, sep) ==
    IF \E i \in 1..Len(s) : CharAt(s, i) = sep
    THEN LET i == CHOOSE k \in 1..Len(s) :
                      /\ CharAt(s, k) = sep
                      /\ \A j \in 1..(k - 1) : CharAt(s, j) # sep
         IN  <<SubSeq(s, 1, i - 1)>> \o split(SubSeq(s, i + 1, Len(s)), sep)
    ELSE <<s>>

Range(f) == {f[x] : x \in DOMAIN f}

\* days from 1970-01-01 to the first day of month `month` (1..12) of `year`
daysFromCivil(year, month) ==
    LET y == IF month <= 2 THEN year - 1 ELSE year
        era == y \div 400
        yoe == y - era * 400
        mp == IF month > 2 THEN month - 3 ELSE month + 9
        doy == (153 * mp + 2) \div 5
        doe == yoe * 365 + yoe \div 4 - yoe \div 100 + doy
    IN  era * 146097 + doe - 719468

\* a Date in local time: the number of its day and the milliseconds into it.
\* new Date(year, monthIndex, day): midnight; a day past the month's end rolls over
Date(year, monthIndex, day) ==
    [day |-> daysFromCivil(year, monthIndex + 1) + day - 1, ms |-> 0]

EndOfDayMs == 86399999

\* date.setHours(h, m, s, ms), given as milliseconds into the day
setHours(date, ms) == [date EXCEPT !.ms = ms]

(***************************************************************************)
(* frontend utils: evaluateRulesForDate, detectConflicts                   *)
(***************************************************************************)
\* timeToMinutes: `const [h, m] = time.split(':').map(Number); return h * 60 + m`
timeToMinutes(time) ==
    LET parts == split(time, ":")
    IN  Number(parts[1]) * 60 + Number(parts[2])

\* parseLocalDate: 'YYYY-MM-DD' to the local midnight of that day
parseLocalDate(dateStr) ==
    LET parts == split(dateStr, "-")
    IN  Date(Number(parts[1]), Number(parts[2]) - 1, Number(parts[3]))

\* date-fns isSameDay: the two dates have the same start of day
isSameDay(dateLeft, dateRight) == dateLeft.day = dateRight.day

\* a <= b as timestamps
notAfter(a, b) == a.day < b.day \/ (a.day = b.day /\ a.ms <= b.ms)

\* the interval taken as open at its end
isWithinIntervalOpenEnd(date, start, end) ==
    notAfter(start, date) /\ date.day < end.day

\* date-fns isWithinInterval for an interval with start <= end: both ends count
isWithinInterval(date, start, end) == notAfter(start, date) /\ notAfter(date, end)

\* the ISO number of the weekday, Sunday = 7
getDayIso(date) == ((date.day + 3) % 7) + 1

\* date-fns getDay: 0 = Sunday .. 6 = Saturday (1970-01-01 was a Thursday)
getDay(date) == (date.day + 4) % 7

\* a Rule without dateRange
NoDateRange == [start |-> Undefined, end |-> Undefined]

\* isValidDate of evaluateRulesForDate
isValidDate(rule, date) ==
    /\ (rule.specificDate \notin {Undefined, ""})
          => isSameDay(date, parseLocalDate(rule.specificDate))
    /\ (rule.dateRange # NoDateRange)
          => isWithinInterval(date,
                 setHours(parseLocalDate(rule.dateRange.start), 0),
                 setHours(parseLocalDate(rule.dateRange.end), EndOfDayMs))
    /\ (Len(rule.weekdays) > 0) => getDay(date) \in Range(rule.weekdays)

\* the body of rules.forEach in evaluateRulesForDate: what one rule pushes
ruleBlocks(rule, date) ==
    IF ~isValidDate(rule, date) THEN <<>>
    ELSE IF Len(rule.intervals) = 0
    THEN << [start |-> 0, end |-> 1440, ruleId |-> rule.id, intervalId |-> "full-day"] >>
    ELSE [k \in 1..Len(rule.intervals) |->
             [start |-> timeToMinutes(rule.intervals[k].start),
              end |-> timeToMinutes(rule.intervals[k].end),
              ruleId |-> rule.id,
              intervalId |-> rule.intervals[k].id]]

RECURSIVE evaluateRulesForDate(_, _)
evaluateRulesForDate(rules, date) ==
    IF rules = <<>> THEN <<>>
    ELSE ruleBlocks(Head(rules), date) \o evaluateRulesForDate(Tail(rules), date)

\* overlap of the closed intervals: ranges that only touch overlap too
timeOverlapClosed(startA, endA, startB, endB) == startA <= endB /\ startB <= endA

timeOverlap(startA, endA, startB, endB) == startA < endB /\ startB < endA

\* the EvaluatedBlocks detectConflicts pushes for one module
moduleBlocks(module, date) ==
    LET ranges == evaluateRulesForDate(module.rules, date)
    IN  [k \in 1..Len(ranges) |->
            [moduleId |-> module.id,
             phoneNumber |-> module.phoneNumber,
             startMinutes |-> ranges[k].start,
             endMinutes |-> ranges[k].end,
             priority |-> module.order,
             originalIntervalId |-> ranges[k].intervalId,
             originalRuleId |-> ranges[k].ruleId]]

RECURSIVE flattenBlocks(_, _)
flattenBlocks(activeModules, date) ==
    IF activeModules = <<>> THEN <<>>
    ELSE moduleBlocks(Head(activeModules), date)
            \o flattenBlocks(Tail(activeModules), date)

conflictPair(blockA, blockB) ==
    IF blockA.priority > blockB.priority
    THEN [higher |-> blockB, lower |-> blockA]
    ELSE [higher |-> blockA, lower |-> blockB]

\* the two nested loops of detectConflicts, from the pair (i, j) on
RECURSIVE conflictLoop(_, _, _)
conflictLoop(blocks, i, j) ==
    IF i > Len(blocks) THEN <<>>
    ELSE IF j > Len(blocks) THEN conflictLoop(blocks, i + 1, i + 2)
    ELSE (IF blocks[i].phoneNumber # blocks[j].phoneNumber THEN <<>>
          ELSE IF timeOverlap(blocks[i].startMinutes, blocks[i].endMinutes,
                              blocks[j].startMinutes, blocks[j].endMinutes)
          THEN << conflictPair(blocks[i], blocks[j]) >>
          ELSE <<>>)
         \o conflictLoop(blocks, i, j + 1)

isActive(module) == module.active

\* detectConflicts: the blocks it flattened and the conflicts it returns
detectConflicts(modules, date) ==
    LET blocks == flattenBlocks(SelectSeq(modules, isActive), date)
    IN  [evaluatedBlocks |-> blocks, conflicts |-> conflictLoop(blocks, 1, 2)]

(***************************************************************************)
(* The planner run on modules made in the editor: the schedule of a day    *)
(***************************************************************************)
\* calendar dates in ascending order, each with its weekday (0 = Sunday)
DateCorpus ==
    << [iso |-> "2026-01-31", dow |-> 6],
       [iso |-> "2026-02-01", dow |-> 0],
       [iso |-> "2026-02-02", dow |-> 1],
       [iso |-> "2026-02-28", dow |-> 6],
       [iso |-> "2026-03-01", dow |-> 0] >>

\* times of day as the editor writes them, with their hours and minutes
TimeCorpus ==
    { [text |-> "08:00", h |-> 8, m |-> 0],
      [text |-> "11:30", h |-> 11, m |-> 30],
      [text |-> "12:00", h |-> 12, m |-> 0],
      [text |-> "13:00", h |-> 13, m |-> 0],
      [text |-> "14:00", h |-> 14, m |-> 0],
      [text |-> "23:59", h |-> 23, m |-> 59] }

TimeInterval(id, start, end) == [id |-> id, start |-> start, end |-> end]

IntervalLists ==
    { <<>>,
      << TimeInterval("i1", "08:00", "12:00"), TimeInterval("i2", "11:30", "14:00") >> }

Rule(id, specificDate, dateRange, weekdays, intervals) ==
    [id |-> id, specificDate |-> specificDate, dateRange |-> dateRange,
     weekdays |-> weekdays, intervals |-> intervals]

\* the rules of the first module: every combination of the three constraints
RulesA ==
    { Rule("r1", sd, dr, wd, iv) :
        sd \in {Undefined, "2026-02-28"},
        dr \in {NoDateRange, [start |-> "2026-02-01", end |-> "2026-02-28"]},
        wd \in {<<>>, <<1>>, <<0, 6>>},
        iv \in IntervalLists }

RuleListsA ==
    { <<r>> : r \in RulesA }
    \cup { << Rule("r0", Undefined, NoDateRange, <<6>>,
                   << TimeInterval("i0", "13:00", "23:59") >>), r >> :
             r \in {x \in RulesA : x.specificDate = Undefined /\ x.weekdays = <<>>} }

RulesB ==
    << Rule("r2", Undefined, NoDateRange, <<>>,
            << TimeInterval("i3", "12:00", "13:00") >>) >>

Module(id, phoneNumber, active, order, rules) ==
    [id |-> id, phoneNumber |-> phoneNumber, active |-> active, order |-> order,
     rules |-> rules]

PlannerInputs ==
    { << Module("m1", "100", a1, o1, rulesA),
         Module("m2", m2.phoneNumber, m2.active, 1, RulesB),
         Module("m3", "100", TRUE, 1,
                << Rule("r3", Undefined, NoDateRange, <<>>,
                        << TimeInterval("i4", "11:30", "14:00"),
                           TimeInterval("i5", "14:00", "23:59") >>) >>) >> :
        a1 \in BOOLEAN, o1 \in {0, 2}, rulesA \in RuleListsA,
        m2 \in { [phoneNumber |-> "100", active |-> TRUE],
                  [phoneNumber |-> "200", active |-> TRUE],
                  [phoneNumber |-> "100", active |-> FALSE] } }

\* times of day at which the date is selected: midnight and the last millisecond
DayTimes == {0, EndOfDayMs}

PlannerInit ==
    /\ OrchInit
    /\ LoginIdle
    /\ ppc = "planner"
    /\ plannerModules \in PlannerInputs
    /\ selectedDate = [day |-> 0, ms |-> 0]
    /\ dateInput = [iso |-> "", dow |-> 0]
    /\ evaluatedBlocks = <<>>
    /\ conflicts = <<>>
    /\ evalRules = <<>>
    /\ timeRanges = <<>>
    /\ rawModules = <<>>
    /\ normalized = <<>>
    /\ logins = NoLogins

\* the user selects the date `d` (at time of day `ms`)
SelectDate(d, ms) ==
    /\ dateInput' = DateCorpus[d]
    /\ selectedDate' = setHours(parseLocalDate(DateCorpus[d].iso), ms)

\* App: the user selects a date and `detectConflicts(modules, selectedDate)` is
\* recomputed; no module card is rendered for the new date yet
DetectConflicts(d, ms) ==
    /\ ppc = "planner"
    /\ SelectDate(d, ms)
    /\ LET r == detectConflicts(plannerModules, selectedDate')
       IN  /\ evaluatedBlocks' = r.evaluatedBlocks
           /\ conflicts' = r.conflicts
    /\ evalRules' = <<>>
    /\ timeRanges' = <<>>
    /\ UNCHANGED <<ppc, plannerModules, rawModules, normalized>>
    /\ UNCHANGED <<orchVars, loginVars>>

\* App: the card of the module at `k` is rendered for the selected date with
\* `evaluateRulesForDate(module.rules, selectedDate)`
EvaluateRules(k) ==
    /\ ppc = "planner"
    /\ dateInput.iso # ""
    /\ k \in 1..Len(plannerModules)
    /\ evalRules' = plannerModules[k].rules
    /\ timeRanges' = evaluateRulesForDate(plannerModules[k].rules, selectedDate)
    /\ UNCHANGED <<ppc, plannerModules, selectedDate, dateInput, evaluatedBlocks,
                   conflicts, rawModules, normalized>>
    /\ UNCHANGED <<orchVars, loginVars>>

PlannerNext ==
    \/ \E d \in 1..Len(DateCorpus), ms \in DayTimes : DetectConflicts(d, ms) /\ UNCHANGED logins
    \/ \E k \in 1..3 : EvaluateRules(k) /\ UNCHANGED logins

PlannerSpec == PlannerInit /\ [][PlannerNext]_vars

ModuleOf(id) == CHOOSE m \in Range(plannerModules) : m.id = id

\* the pairs of blocks that conflict: same phone number, overlapping ranges
ConflictingPairs ==
    { pr \in (DOMAIN evaluatedBlocks) \X (DOMAIN evaluatedBlocks) :
        /\ pr[1] < pr[2]
        /\ evaluatedBlocks[pr[1]].phoneNumber = evaluatedBlocks[pr[2]].phoneNumber
        /\ evaluatedBlocks[pr[1]].startMinutes < evaluatedBlocks[pr[2]].endMinutes
        /\ evaluatedBlocks[pr[2]].startMinutes < evaluatedBlocks[pr[1]].endMinutes }

\* the conflict `c` is about the blocks at `i` and `j`
ConflictOf(c, i, j) ==
    \/ c.higher = evaluatedBlocks[i] /\ c.lower = evaluatedBlocks[j]
    \/ c.higher = evaluatedBlocks[j] /\ c.lower = evaluatedBlocks[i]

\* C14: conflict detection for a date. The blocks compared are those of the
\* active modules; a pair of them is recorded as a conflict if and only if the
\* two modules have the same phone number and the ranges overlap as half-open
\* intervals; each such pair is recorded exactly once, with the block of the
\* module of lower order as `higher`; inactive modules and modules with
\* different phone numbers never appear in a conflict.
C14_Conflicts ==
    (ppc = "planner" /\ dateInput.iso # "") =>
    /\ \A b \in Range(evaluatedBlocks) : ModuleOf(b.moduleId).active
    /\ \A m \in Range(plannerModules) :
          m.active => \A k \in DOMAIN moduleBlocks(m, selectedDate) :
                         moduleBlocks(m, selectedDate)[k] \in Range(evaluatedBlocks)
    /\ Len(conflicts) = Cardinality(ConflictingPairs)
    /\ \A pr \in ConflictingPairs :
          Cardinality({k \in DOMAIN conflicts : ConflictOf(conflicts[k], pr[1], pr[2])}) = 1
    /\ \A k \in DOMAIN conflicts :
          /\ \E pr \in ConflictingPairs : ConflictOf(conflicts[k], pr[1], pr[2])
          /\ conflicts[k].higher.priority <= conflicts[k].lower.priority
          /\ conflicts[k].higher.phoneNumber = conflicts[k].lower.phoneNumber
          /\ ModuleOf(conflicts[k].higher.moduleId).active
          /\ ModuleOf(conflicts[k].lower.moduleId).active

\* two modules of the same number overlap and the later one in the list has the
\* lower order; another block only touches (14:00-23:59 after 11:30-14:00) and an
\* inactive module of the same number is left out
C14_Witness ==
    /\ ppc = "planner"
    /\ dateInput.iso # ""
    /\ \E k \in DOMAIN conflicts :
          /\ conflicts[k].higher.moduleId = "m3"
          /\ conflicts[k].lower.moduleId = "m1"
          /\ conflicts[k].higher.priority < conflicts[k].lower.priority
    /\ \E i, j \in DOMAIN evaluatedBlocks :
          /\ evaluatedBlocks[i].endMinutes = evaluatedBlocks[j].startMinutes
          /\ evaluatedBlocks[i].phoneNumber = evaluatedBlocks[j].phoneNumber
    /\ \E m \in Range(plannerModules) : ~m.active /\ m.phoneNumber = "100"

\* the position of a date in the calendar
DateIndex(iso) == CHOOSE k \in DOMAIN DateCorpus : DateCorpus[k].iso = iso

MinutesOf(text) ==
    LET t == CHOOSE x \in TimeCorpus : x.text = text IN t.h * 60 + t.m

\* every constraint the rule has holds on the selected date
RuleApplies(rule) ==
    /\ rule.specificDate # Undefined => rule.specificDate = dateInput.iso
    /\ rule.dateRange # NoDateRange =>
          /\ DateIndex(rule.dateRange.start) <= DateIndex(dateInput.iso)
          /\ DateIndex(dateInput.iso) <= DateIndex(rule.dateRange.end)
    /\ Len(rule.weekdays) > 0 => dateInput.dow \in Range(rule.weekdays)

\* the blocks of `timeRanges` that come from the rule
BlocksOfRule(rule) == SelectSeq(timeRanges, LAMBDA b : b.ruleId = rule.id)

\* C15: evaluateRulesForDate. A rule contributes blocks for a date if and only
\* if every constraint it has holds; an applicable rule without intervals
\* contributes the one block [0,1440) with interval id 'full-day', otherwise one
\* block per interval, in order, with start and end equal to hours*60+minutes; a
\* rule that does not apply contributes nothing; no other block is returned.
C15_EvaluateRules ==
    (ppc = "planner" /\ evalRules # <<>>) =>
    /\ \A b \in Range(timeRanges) : \E r \in Range(evalRules) : b.ruleId = r.id
    /\ \A r \in Range(evalRules) :
          LET blocks == BlocksOfRule(r)
          IN  /\ ~RuleApplies(r) => blocks = <<>>
              /\ (RuleApplies(r) /\ Len(r.intervals) = 0) =>
                    blocks = << [start |-> 0, end |-> 1440, ruleId |-> r.id,
                                 intervalId |-> "full-day"] >>
              /\ (RuleApplies(r) /\ Len(r.intervals) > 0) =>
                    /\ Len(blocks) = Len(r.intervals)
                    /\ \A k \in DOMAIN blocks :
                          /\ blocks[k].intervalId = r.intervals[k].id
                          /\ blocks[k].start = MinutesOf(r.intervals[k].start)
                          /\ blocks[k].end = MinutesOf(r.intervals[k].end)

\* on the last day of its date range, late in the evening, a rule with all three
\* constraints applies and yields its two intervals; another rule of the list
\* does not apply
C15_Witness ==
    /\ ppc = "planner"
    /\ dateInput.iso = "2026-02-28"
    /\ selectedDate.ms = EndOfDayMs
    /\ \E r \in Range(evalRules) :
          /\ r.specificDate = "2026-02-28"
          /\ r.dateRange # NoDateRange
          /\ r.weekdays = <<0, 6>>
          /\ Len(r.intervals) = 2
          /\ Len(BlocksOfRule(r)) = 2
    /\ \E b \in Range(timeRanges) : b.start = 690 /\ b.end = 840

(***************************************************************************)
(* backend parser: the text of a rule to weekdays, windows, dates, target  *)
(***************************************************************************)
UpperCase == "ABCDEFGHIJKLMNOPQRSTUVWXYZÄÖÜ"

LowerCase == "abcdefghijklmnopqrstuvwxyzäöü"

toLowerChar(ch) ==
    IF \E k \in 1..Len(UpperCase) : CharAt(UpperCase, k) = ch
    THEN CharAt(LowerCase, CHOOSE k \in 1..Len(UpperCase) : CharAt(UpperCase, k) = ch)
    ELSE ch

RECURSIVE toLowerCase(_)
toLowerCase(s) ==
    IF Len(s) = 0 THEN ""
    ELSE IF Len(s) = 1 THEN toLowerChar(s)
    ELSE toLowerCase(SubSeq(s, 1, Len(s) \div 2))
             \o toLowerCase(SubSeq(s, Len(s) \div 2 + 1, Len(s)))

\* the characters of \s that the texts contain
isSpace(ch) == ch \in {" ", "\t", "\n"}

\* the text has `w` at position `i`
hasAt(s, i, w) == i >= 1 /\ i + Len(w) - 1 <= Len(s) /\ SubSeq(s, i, i + Len(w) - 1) = w

\* the least position of a set of positions
Min(positions) == CHOOSE i \in positions : \A j \in positions : i <= j

\* the first position at or after `from` where the text has `w`; 0 if there is none
indexOf(s, w, from) ==
    LET hits == {i \in from..Len(s) : hasAt(s, i, w)}
    IN  IF hits = {} THEN 0 ELSE Min(hits)

includes(s, w) == indexOf(s, w, 1) # 0

\* s.replace(w, r) with a string pattern: the first occurrence only
replace(s, w, r) ==
    LET i == indexOf(s, w, 1)
    IN  IF i = 0 THEN s ELSE SubSeq(s, 1, i - 1) \o r \o SubSeq(s, i + Len(w), Len(s))

RECURSIVE replaceAll(_, _, _)
replaceAll(s, w, r) ==
    LET i == indexOf(s, w, 1)
    IN  IF i = 0 THEN s
        ELSE SubSeq(s, 1, i - 1) \o r \o replaceAll(SubSeq(s, i + Len(w), Len(s)), w, r)

\* the first position at or after `i` whose character is not a space (\s*)
skipSpaces(s, i) ==
    LET others == {k \in i..Len(s) : ~isSpace(CharAt(s, k))}
    IN  IF others = {} THEN (IF i > Len(s) THEN i ELSE Len(s) + 1) ELSE Min(others)

\* s.replace(/\s+/g, r)
RECURSIVE replaceSpaces(_, _)
replaceSpaces(s, r) ==
    LET spaces == {k \in 1..Len(s) : isSpace(CharAt(s, k))}
    IN  IF spaces = {} THEN s
        ELSE SubSeq(s, 1, Min(spaces) - 1) \o r
                 \o replaceSpaces(SubSeq(s, skipSpaces(s, Min(spaces)), Len(s)), r)

trimStart(s) == SubSeq(s, skipSpaces(s, 1), Len(s))

trimEnd(s) ==
    LET others == {k \in 1..Len(s) : ~isSpace(CharAt(s, k))}
    IN  IF others = {} THEN "" ELSE SubSeq(s, 1, CHOOSE k \in others : \A j \in others : j <= k)

trim(s) == trimEnd(trimStart(s))

\* n.toString().padStart(width, '0')
RECURSIVE padStart(_, _)
padStart(s, width) == IF Len(s) >= width THEN s ELSE padStart("0" \o s, width)

normalizeText(value) ==
    trim(replaceSpaces(
        replaceAll(replaceAll(replaceAll(replaceAll(toLowerCase(value),
            "ä", "ae"), "ö", "oe"), "ü", "ue"), "ß", "ss"),
        " "))

denormalizeWeekday(value) ==
    replace(replace(replace(value, "ae", "ä"), "oe", "ö"), "ue", "ü")

\* the alternatives of weekdayRegex, each with an optional plural s
WeekdayStems ==
    <<"montag", "dienstag", "mittwoch", "donnerstag", "freitag", "samstag", "sonntag">>

\* weekdayMap[word]; 0 stands for the undefined of a word that is no key
weekdayMap(word) ==
    IF \E k \in 1..7 : word = WeekdayStems[k] \/ word = WeekdayStems[k] \o "s"
    THEN CHOOSE k \in 1..7 : word = WeekdayStems[k] \/ word = WeekdayStems[k] \o "s"
    ELSE 0

\* the match of (montag(?:s)?|...|sonntag(?:s)?) at position `i`; "" if none
weekdayAt(s, i) ==
    IF \E k \in 1..7 : hasAt(s, i, WeekdayStems[k])
    THEN LET stem == WeekdayStems[CHOOSE k \in 1..7 : hasAt(s, i, WeekdayStems[k])]
         IN  IF hasAt(s, i + Len(stem), "s") THEN stem \o "s" ELSE stem
    ELSE ""

\* the match of <weekday>\s+bis\s+<weekday> at position `i`: the two words, or
\* <<>>. The second word: \s+bis\s+<weekday> from `a`, the spaces ending at `b`
secondWeekdayAt(s, a, b) ==
    IF b > a /\ hasAt(s, b, "bis") /\ skipSpaces(s, b + 3) > b + 3
    THEN weekdayAt(s, skipSpaces(s, b + 3))
    ELSE ""

weekdayPair(first, second) ==
    IF first # "" /\ second # "" THEN <<first, second>> ELSE <<>>

weekdayRangeFrom(s, i, first) ==
    weekdayPair(first,
                IF first = "" THEN ""
                ELSE secondWeekdayAt(s, i + Len(first), skipSpaces(s, i + Len(first))))

weekdayRangeAt(s, i) == weekdayRangeFrom(s, i, weekdayAt(s, i))

\* normalized.match(range pattern): the groups of the leftmost match, or <<>>
weekdayRangeMatch(s) ==
    LET hits == {i \in 1..Len(s) : weekdayRangeAt(s, i) # <<>>}
    IN  IF hits = {} THEN <<>> ELSE weekdayRangeAt(s, Min(hits))

\* Array.from(normalized.matchAll(weekdayRegex)), scanning from position `i`
RECURSIVE weekdayMatches(_, _)
weekdayMatches(s, i) ==
    LET hits == {k \in i..Len(s) : weekdayAt(s, k) # ""}
    IN  IF hits = {} THEN <<>>
        ELSE <<weekdayAt(s, Min(hits))>>
                 \o weekdayMatches(s, Min(hits) + Len(weekdayAt(s, Min(hits))))

RECURSIVE unique(_)
unique(values) ==
    IF values = <<>> THEN <<>>
    ELSE LET front == unique(SubSeq(values, 1, Len(values) - 1))
             last == values[Len(values)]
         IN  IF last \in Range(front) THEN front ELSE Append(front, last)

\* values.sort((a, b) => a - b)
sortAscending(values) == SortSeq(values, LAMBDA a, b : a < b)

\* a range that stops at the end of the week
createRangeNoWrap(start, end) ==
    [index \in 1..(IF start <= end THEN end - start + 1 ELSE 7 - start + 1) |->
        start + index - 1]

createRange(start, end) ==
    IF start <= end
    THEN [index \in 1..(end - start + 1) |-> start + index - 1]
    ELSE [index \in 1..(7 - start + 1) |-> start + index - 1] \o [index \in 1..end |-> index]

\* weekdayMap[denormalizeWeekday(word)]
dayOfWord(word) == weekdayMap(denormalizeWeekday(word))

\* the days of a range if both of its words are days (the early return)
rangeDays(start, end) ==
    IF start # 0 /\ end # 0 THEN createRange(start, end) ELSE <<>>

\* the days from the range match and from the matches of the single weekdays
daysOfMatches(rangeMatch, matches) ==
    IF rangeMatch # <<>> /\ rangeDays(dayOfWord(rangeMatch[1]), dayOfWord(rangeMatch[2])) # <<>>
    THEN rangeDays(dayOfWord(rangeMatch[1]), dayOfWord(rangeMatch[2]))
    ELSE sortAscending(unique(SelectSeq([k \in DOMAIN matches |-> dayOfWord(matches[k])],
                                        LAMBDA value : value # 0)))

daysOfNormalized(normalizedText) ==
    daysOfMatches(weekdayRangeMatch(normalizedText), weekdayMatches(normalizedText, 1))

parseDaysOfWeek(rawText) == daysOfNormalized(normalizeText(rawText))

\* the number of digits at position `i`, at most `most` (a greedy \d{1,most})
digitRun(s, i, most) ==
    CHOOSE n \in 0..most :
        /\ \A k \in 0..(n - 1) : i + k <= Len(s) /\ isDigit(CharAt(s, i + k))
        /\ n = most \/ i + n > Len(s) \/ ~isDigit(CharAt(s, i + n))

NoMatch == [ok |-> FALSE]

\* toIsoDate: null (here "") unless the three numbers are a date of the calendar;
\* Date.UTC reads a year below 100 as 1900 + year, so such a year never round-trips
isLeapYear(year) == year % 4 = 0 /\ (year % 100 # 0 \/ year % 400 = 0)

daysInMonth(year, month) ==
    IF month = 2 THEN (IF isLeapYear(year) THEN 29 ELSE 28)
    ELSE IF month \in {4, 6, 9, 11} THEN 30 ELSE 31

toIsoDate(year, month, day) ==
    IF month < 1 \/ month > 12 \/ day < 1 \/ day > 31 THEN ""
    ELSE IF year < 100 \/ day > daysInMonth(year, month) THEN ""
    ELSE padStart(ToString(year), 4) \o "-" \o padStart(ToString(month), 2)
             \o "-" \o padStart(ToString(day), 2)

\* the time padded, whatever its hours and minutes
normalizeTimeUnchecked(hours, minutes) ==
    padStart(ToString(Number(hours)), 2) \o ":" \o padStart(ToString(Number(minutes)), 2)

\* normalizeTime: null (here "") unless 0 <= h <= 23 and 0 <= m <= 59
normalizeTime(hours, minutes) ==
    LET h == Number(hours)
        m == Number(minutes)
    IN  IF h = NaN \/ m = NaN \/ h < 0 \/ h > 23 \/ m < 0 \/ m > 59 THEN ""
        ELSE padStart(ToString(h), 2) \o ":" \o padStart(ToString(m), 2)

\* the match of (\d{1,2})[:.](\d{2}) at position `i`, `n` the digits of the hours
hourMinuteOf(s, i, n) ==
    IF /\ n >= 1
       /\ (hasAt(s, i + n, ":") \/ hasAt(s, i + n, "."))
       /\ digitRun(s, i + n + 1, 2) = 2
    THEN [ok |-> TRUE, hours |-> SubSeq(s, i, i + n - 1),
          minutes |-> SubSeq(s, i + n + 1, i + n + 2), next |-> i + n + 3]
    ELSE NoMatch

hourMinuteAt(s, i) == hourMinuteOf(s, i, digitRun(s, i, 2))

\* the length of the match of one of the words at position `i`; 0 if none matches
wordAt(s, i, words) ==
    IF \E k \in DOMAIN words : hasAt(s, i, words[k])
    THEN Len(words[CHOOSE k \in DOMAIN words :
                 hasAt(s, i, words[k]) /\ \A j \in 1..(k - 1) : ~hasAt(s, i, words[j])])
    ELSE 0

\* the match of the window pattern at position `i` of the lower-cased text (flag i);
\* the dashes other than '-' are not among the characters of the texts. The
\* pattern is <time>\s*(?:uhr)?\s*(?:bis|-|to)\s*<time>, matched part by part
skipWord(s, i, word) == IF hasAt(s, i, word) THEN i + Len(word) ELSE i

secondTimeAt(s, b, sep) ==
    IF sep = 0 THEN NoMatch ELSE hourMinuteAt(s, skipSpaces(s, b + sep))

timeWindowOf(first, second) ==
    IF second.ok
    THEN [ok |-> TRUE, start |-> normalizeTime(first.hours, first.minutes),
          end |-> normalizeTime(second.hours, second.minutes), next |-> second.next]
    ELSE NoMatch

restOfWindowAt(s, first, b) ==
    timeWindowOf(first, secondTimeAt(s, b, wordAt(s, b, <<"bis", "-", "to">>)))

timeWindowFrom(s, first) ==
    IF first.ok
    THEN restOfWindowAt(s, first, skipSpaces(s, skipWord(s, skipSpaces(s, first.next), "uhr")))
    ELSE NoMatch

timeWindowAt(s, i) == timeWindowFrom(s, hourMinuteAt(s, i))

\* the loop over rawText.matchAll(pattern), from position `i`; the body of the
\* loop for one match adds a window unless a time is null
RECURSIVE timeWindowsFrom(_, _)
timeWindowsWith(s, match) ==
    (IF match.start = "" \/ match.end = "" THEN <<>>
     ELSE <<[start |-> match.start, end |-> match.end]>>)
        \o timeWindowsFrom(s, match.next)

timeWindowsAmong(s, hits) ==
    IF hits = {} THEN <<>> ELSE timeWindowsWith(s, timeWindowAt(s, Min(hits)))

timeWindowsFrom(s, i) == timeWindowsAmong(s, {k \in i..Len(s) : timeWindowAt(s, k).ok})

parseTimeWindows(rawText) == timeWindowsFrom(toLowerCase(rawText), 1)

isDateSeparator(s, i) ==
    i <= Len(s) /\ (isSpace(CharAt(s, i)) \/ CharAt(s, i) \in {".", "/", "-"})

\* the match of (\d{4})[\s./-](\d{1,2})[\s./-](\d{1,2}) at position `i`, `m` and `d`
\* the digits of its month and day
ymdOf(s, i, m, d) ==
    IF /\ digitRun(s, i, 4) = 4
       /\ isDateSeparator(s, i + 4)
       /\ m >= 1
       /\ isDateSeparator(s, i + 5 + m)
       /\ d >= 1
    THEN [ok |-> TRUE,
          iso |-> toIsoDate(Number(SubSeq(s, i, i + 3)),
                            Number(SubSeq(s, i + 5, i + 4 + m)),
                            Number(SubSeq(s, i + 6 + m, i + 5 + m + d))),
          next |-> i + 6 + m + d]
    ELSE NoMatch

ymdAt(s, i) ==
    ymdOf(s, i, digitRun(s, i + 5, 2), digitRun(s, i + 6 + digitRun(s, i + 5, 2), 2))

\* the match of (\d{1,2})\.(\d{1,2})\.(\d{4}) at position `i`, `d` and `m` the
\* digits of its day and month
dmyOf(s, i, d, m) ==
    IF /\ d >= 1
       /\ hasAt(s, i + d, ".")
       /\ m >= 1
       /\ hasAt(s, i + d + 1 + m, ".")
       /\ digitRun(s, i + d + m + 2, 4) = 4
    THEN [ok |-> TRUE,
          iso |-> toIsoDate(Number(SubSeq(s, i + d + m + 2, i + d + m + 5)),
                            Number(SubSeq(s, i + d + 1, i + d + m)),
                            Number(SubSeq(s, i, i + d - 1))),
          next |-> i + d + m + 6]
    ELSE NoMatch

dmyAt(s, i) ==
    dmyOf(s, i, digitRun(s, i, 2), digitRun(s, i + digitRun(s, i, 2) + 1, 2))

\* <date>\s*(?:bis|-)\s*<date> at position `i`, the dates in the given form; the
\* optional words before the first date ('datum von', 'vom') move the start of a
\* match but never its groups
dateAt(s, i, form) == IF form = "ymd" THEN ymdAt(s, i) ELSE dmyAt(s, i)

secondDateAt(s, a, sep, form) ==
    IF sep = 0 THEN NoMatch ELSE dateAt(s, skipSpaces(s, a + sep), form)

dateRangeOf(first, second) ==
    IF second.ok THEN [ok |-> TRUE, start |-> first.iso, end |-> second.iso] ELSE NoMatch

restOfRangeAt(s, first, a, form) ==
    dateRangeOf(first, secondDateAt(s, a, wordAt(s, a, <<"bis", "-">>), form))

dateRangeFrom(s, first, form) ==
    IF first.ok THEN restOfRangeAt(s, first, skipSpaces(s, first.next), form) ELSE NoMatch

dateRangeAt(s, i, form) == dateRangeFrom(s, dateAt(s, i, form), form)

\* normalized.match(pattern): the leftmost match
dateRangeMatch(s, form) ==
    LET hits == {i \in 1..Len(s) : dateRangeAt(s, i, form).ok}
    IN  IF hits = {} THEN NoMatch ELSE dateRangeAt(s, Min(hits), form)

\* the first of the two matches whose dates are both dates of the calendar
dateRangeOfMatches(ymd, dmy) ==
    IF ymd.ok /\ ymd.start # "" /\ ymd.end # ""
    THEN [start |-> ymd.start, end |-> ymd.end]
    ELSE IF dmy.ok /\ dmy.start # "" /\ dmy.end # ""
    THEN [start |-> dmy.start, end |-> dmy.end]
    ELSE NoDateRange

dateRangeOfNormalized(normalizedText) ==
    dateRangeOfMatches(dateRangeMatch(normalizedText, "ymd"),
                       dateRangeMatch(normalizedText, "dmy"))

parseDateRange(rawText) == dateRangeOfNormalized(normalizeText(rawText))

\* an optional value of the raw scrape: absent, or present with a value
None == <<>>

Some(value) == <<value>>

NoTarget == [type |-> Undefined, value |-> Undefined]

isNumberChar(ch) == isDigit(ch) \/ isSpace(ch) \/ ch \in {"/", "-"}

\* the length of the greedy [0-9\s/\-]* at position `i`
numberRun(s, i) ==
    LET others == {k \in i..Len(s) : ~isNumberChar(CharAt(s, k))}
    IN  IF others = {} THEN (IF i > Len(s) THEN 0 ELSE Len(s) + 1 - i) ELSE Min(others) - i

\* the match of \+?[0-9][0-9\s/\-]{4,} at position `i`; "" if none
numberAt(s, i) ==
    LET d == IF hasAt(s, i, "+") THEN i + 1 ELSE i
    IN  IF d <= Len(s) /\ isDigit(CharAt(s, d)) /\ numberRun(s, d + 1) >= 4
        THEN SubSeq(s, i, d + numberRun(s, d + 1))
        ELSE ""

numberMatch(s) ==
    LET hits == {i \in 1..Len(s) : numberAt(s, i) # ""}
    IN  IF hits = {} THEN "" ELSE numberAt(s, Min(hits))

isDelimiter(ch) == ch \in {",", ";", "\n"}

\* the end of the greedy [^,;\n]* at position `i`
captureEnd(s, i) ==
    LET delimiters == {k \in i..Len(s) : isDelimiter(CharAt(s, k))}
    IN  IF delimiters = {} THEN (IF i > Len(s) THEN i ELSE Len(s) + 1) ELSE Min(delimiters)

\* the match of (?:<keywords>)\s*[:\-]\s*([^,;\n]+) at position `i` of the text
\* `s`, whose lower-cased form is `lower` (flag i): the
\* group starts after the spaces; if nothing but a delimiter follows them, a space
\* that is no line break is given back to the group
labelledValue(s, a, b) ==
    IF b <= Len(s) /\ ~isDelimiter(CharAt(s, b))
    THEN [ok |-> TRUE, value |-> trim(SubSeq(s, b, captureEnd(s, b) - 1))]
    ELSE IF \E p \in (a + 1)..(b - 1) : CharAt(s, p) # "\n"
    THEN [ok |-> TRUE, value |-> ""]
    ELSE NoMatch

labelledAfter(s, a) ==
    IF hasAt(s, a, ":") \/ hasAt(s, a, "-")
    THEN labelledValue(s, a, skipSpaces(s, a + 1))
    ELSE NoMatch

labelledFrom(s, i, keyword) ==
    IF keyword = 0 THEN NoMatch ELSE labelledAfter(s, skipSpaces(s, i + keyword))

labelledAt(s, lower, i, keywords) == labelledFrom(s, i, wordAt(lower, i, keywords))

labelledAmong(s, lower, hits, keywords) ==
    IF hits = {} THEN NoMatch ELSE labelledAt(s, lower, Min(hits), keywords)

labelledIn(s, lower, keywords) ==
    labelledAmong(s, lower, {i \in 1..Len(s) : labelledAt(s, lower, i, keywords).ok},
                  keywords)

labelledMatch(s, keywords) == labelledIn(s, toLowerCase(s), keywords)

\* the target from the normalized text and the four matches, in the order of the code
targetOfMatches(normalizedText, number, userMatch, announcementMatch, mailboxMatch) ==
    IF /\ \/ includes(normalizedText, "rufnummer")
          \/ includes(normalizedText, "nummer")
          \/ includes(normalizedText, "ziel")
       /\ number # ""
    THEN [type |-> "number", value |-> replaceSpaces(number, "")]
    ELSE IF userMatch.ok THEN [type |-> "user", value |-> userMatch.value]
    ELSE IF announcementMatch.ok
    THEN [type |-> "announcement", value |-> announcementMatch.value]
    ELSE IF mailboxMatch.ok THEN [type |-> "mailbox", value |-> mailboxMatch.value]
    ELSE NoTarget

parseTarget(rawText) ==
    targetOfMatches(normalizeText(rawText),
                    numberMatch(rawText),
                    labelledMatch(rawText, <<"benutzer", "user">>),
                    labelledMatch(rawText, <<"ansage", "audio">>),
                    labelledMatch(rawText, <<"mailbox", "voicemail">>))

\* the characters of the texts; the place of a character stands for its code
CodePoints ==
    " \t\n0123456789abcdefghijklmnopqrstuvwxyzABCDEFGHIJKLMNOPQRSTUVWXYZäöüÄÖÜß.:,;-+/()"

codeOf(ch) ==
    IF \E k \in 1..Len(CodePoints) : CharAt(CodePoints, k) = ch
    THEN CHOOSE k \in 1..Len(CodePoints) : CharAt(CodePoints, k) = ch
    ELSE 0

\* createHash('sha1').update(text).digest('hex').slice(0, 10): a digest is a
\* function of the characters of the text and of nothing else; a checksum of the
\* characters from `lo` to `hi`, weighted by their places, stands for it
RECURSIVE checksum(_, _, _)
checksum(text, lo, hi) ==
    IF lo > hi THEN 0
    ELSE IF lo = hi THEN codeOf(CharAt(text, lo)) * ((lo % 31) + 1)
    ELSE (checksum(text, lo, (lo + hi) \div 2)
              + checksum(text, (lo + hi) \div 2 + 1, hi)) % 1048576

sha1Hex10(text) == checksum(text, 1, Len(text))

buildRuleId(order, rawText) ==
    "rule-" \o ToString(order + 1) \o "-" \o ToString(sha1Hex10(rawText))

\* parseRuleText: [ok |-> TRUE, rule, warnings], or the error it throws. The label:
\* input.label?.trim() || rawText.split('\n')[0]?.trim() || `Rule ${order + 1}`
labelOf(input, label, firstLine) ==
    IF label # "" THEN label
    ELSE IF firstLine # "" THEN firstLine
    ELSE "Rule " \o ToString(input.order + 1)

\* the rule and the warnings from the parts parsed out of the trimmed text
parsedRule(input, rawText, daysOfWeek, timeWindows, dateRange, target) ==
    [ok |-> TRUE,
     rule |-> [ruleId |-> buildRuleId(input.order, rawText),
               label |-> labelOf(input,
                                 IF input.label = Undefined THEN "" ELSE trim(input.label),
                                 trim(split(rawText, "\n")[1])),
               daysOfWeek |-> daysOfWeek,
               timeWindows |-> timeWindows,
               dateRange |-> dateRange,
               target |-> target,
               order |-> input.order,
               rawText |-> rawText,
               active |-> input.active],
     warnings |->
         (IF Len(daysOfWeek) = 0
          THEN <<"Regel " \o ToString(input.order + 1) \o ": keine Wochentage erkannt">>
          ELSE <<>>)
         \o (IF Len(timeWindows) = 0
             THEN <<"Regel " \o ToString(input.order + 1)
                        \o ": keine Zeitfenster erkannt (Full-Day angenommen)">>
             ELSE <<>>)]

\* parseRuleText after the trim of the text
parseTrimmed(input, rawText) ==
    IF rawText = ""
    THEN [ok |-> FALSE,
          error |-> AppError("PARSE_FAILED", "Leerer Regeltext kann nicht geparst werden", 422)]
    ELSE parsedRule(input, rawText,
                    parseDaysOfWeek(rawText),
                    parseTimeWindows(rawText),
                    parseDateRange(rawText),
                    parseTarget(IF input.explicitTarget # Undefined /\ input.explicitTarget # ""
                                THEN rawText \o "\n" \o input.explicitTarget
                                ELSE rawText))

parseRuleText(input) == parseTrimmed(input, trim(input.rawText))

(***************************************************************************)
(* scraper: the raw modules of a scrape to the payload                     *)
(***************************************************************************)
\* value.replace(/[^0-9]/g, '')
RECURSIVE digitsOnly(_)
digitsOnly(value) ==
    LET digits == {k \in 1..Len(value) : isDigit(CharAt(value, k))}
    IN  IF digits = {} THEN ""
        ELSE CharAt(value, Min(digits)) \o digitsOnly(SubSeq(value, Min(digits) + 1, Len(value)))

parseOrder(value, fallback) ==
    IF value = Undefined \/ value = "" THEN fallback ELSE Number(digitsOnly(value))

\* rawRules.filter((rule) => Boolean(rule.rawText?.trim()))
nonEmptyRules(rawRules) == SelectSeq(rawRules, LAMBDA rule : trim(rule.rawText) # "")

\* the text of the target made part of the text of the rule
parseRawRuleWithTarget(rawRule, ruleIndex) ==
    parseRuleText([rawText |-> IF rawRule.targetText = Undefined THEN rawRule.rawText
                               ELSE rawRule.rawText \o "\n" \o rawRule.targetText,
                   label |-> rawRule.label,
                   order |-> parseOrder(rawRule.orderHint, ruleIndex),
                   explicitTarget |-> rawRule.targetText,
                   active |-> rawRule.active])

\* the body of the map over the filtered rules: parseRuleText with the order
parseRawRule(rawRule, ruleIndex) ==
    parseRuleText([rawText |-> rawRule.rawText,
                   label |-> rawRule.label,
                   order |-> parseOrder(rawRule.orderHint, ruleIndex),
                   explicitTarget |-> rawRule.targetText,
                   active |-> rawRule.active])

\* the rules of a raw module with the warnings they add, or the error rethrown;
\* warnings.push(...parsed.warnings.map(...)) for the first `k` parsed rules
RECURSIVE ruleWarnings(_, _, _)
ruleWarnings(moduleName, parsed, k) ==
    IF k = 0 THEN <<>>
    ELSE ruleWarnings(moduleName, parsed, k - 1)
             \o [w \in DOMAIN parsed[k].warnings |->
                    moduleName \o ": " \o parsed[k].warnings[w]]

\* the rules and the warnings of a module from its parsed rules
rulesOfParsed(rawModule, parsed) ==
    IF \E k \in DOMAIN parsed : ~parsed[k].ok
    THEN [ok |-> FALSE,
          error |-> AppError("PARSE_FAILED", "Regeltext konnte nicht geparst werden", 422)]
    ELSE [ok |-> TRUE,
          rules |-> [k \in DOMAIN parsed |-> parsed[k].rule],
          warnings |-> ruleWarnings(rawModule.moduleName, parsed, Len(parsed))
              \o (IF Len(parsed) = 0
                  THEN <<rawModule.moduleName \o ": keine Regeln erkannt">> ELSE <<>>)]

\* the map over the filtered rules
parseRules(kept) == [k \in DOMAIN kept |-> parseRawRule(kept[k], k - 1)]

normalizeRules(rawModule) ==
    rulesOfParsed(rawModule, parseRules(nonEmptyRules(rawModule.rawRules)))

\* normalizeRawModules at time `t`: [ok |-> TRUE, payload], or the error thrown;
\* the warnings of the first `k` modules, in order
RECURSIVE moduleWarnings(_, _)
moduleWarnings(done, k) ==
    IF k = 0 THEN <<>> ELSE moduleWarnings(done, k - 1) \o done[k].warnings

\* the payload from the raw modules and their normalized rules `done`
payloadOf(instanceId, raw, t, done) ==
    IF \E k \in DOMAIN raw : ~done[k].ok
    THEN [ok |-> FALSE,
          error |-> done[CHOOSE k \in DOMAIN raw :
                        ~done[k].ok /\ \A j \in 1..(k - 1) : done[j].ok].error]
    ELSE [ok |-> TRUE,
          payload |->
              [instanceId |-> instanceId,
               fetchedAt |-> nowIso(t),
               selectorVersion |-> selectorVersion,
               warnings |-> moduleWarnings(done, Len(raw)),
               modules |->
                   [k \in DOMAIN raw |->
                       [moduleId |-> IF raw[k].moduleId # "" THEN raw[k].moduleId
                                     ELSE "module-" \o ToString(k),
                        moduleName |-> raw[k].moduleName,
                        modulePhoneNumber |-> raw[k].modulePhoneNumber,
                        active |-> raw[k].active,
                        rules |-> done[k].rules]]]]

normalizeRawModules(instanceId, raw, t) ==
    payloadOf(instanceId, raw, t, [k \in DOMAIN raw |-> normalizeRules(raw[k])])

(***************************************************************************)
(* frontend moduleMapper: the payload to the modules of the planner        *)
(***************************************************************************)
\* the conversion to a week that starts with Monday = 0
toLegacyWeekdayMondayFirst(day) == day - 1

toLegacyWeekday(day) ==
    IF day = 7 THEN 0
    ELSE IF day < 0 THEN 0
    ELSE IF day > 6 THEN day % 7
    ELSE day

mapRule(rule) ==
    Rule(rule.ruleId,
         Undefined,
         rule.dateRange,
         [k \in DOMAIN rule.daysOfWeek |-> toLegacyWeekday(rule.daysOfWeek[k])],
         [k \in DOMAIN rule.timeWindows |->
             TimeInterval(rule.ruleId \o "-interval-" \o ToString(k),
                          rule.timeWindows[k].start, rule.timeWindows[k].end)])

mapNormalizedPayloadToModules(payload) ==
    [k \in DOMAIN payload.modules |->
        LET moduleEntry == payload.modules[k]
        IN  Module(moduleEntry.moduleId,
                   IF moduleEntry.modulePhoneNumber = Undefined THEN "-"
                   ELSE moduleEntry.modulePhoneNumber,
                   IF moduleEntry.active = None THEN TRUE ELSE moduleEntry.active[1],
                   k - 1,
                   [r \in DOMAIN moduleEntry.rules |-> mapRule(moduleEntry.rules[r])])]

(***************************************************************************)
(* The pipeline on raw scrapes: normalize, map, evaluate                   *)
(***************************************************************************)
\* a rule text as the page shows it, with what a reader recognizes in it: the
\* text without the spaces around it, the first '<day> bis <day>' range, the
\* weekdays mentioned, the number of time windows, whether it has a date range
Text(text, trimmed, range, days, windows, dated) ==
    [text |-> text, trimmed |-> trimmed, range |-> range, days |-> days,
     windows |-> windows, dated |-> dated]

TextCorpus ==
    { Text("montags bis freitags", "montags bis freitags", <<1, 5>>, {1, 5}, 0, FALSE),
      Text("  montags bis freitags\n", "montags bis freitags", <<1, 5>>, {1, 5}, 0, FALSE),
      Text("Freitag bis Montag", "Freitag bis Montag", <<5, 1>>, {1, 5}, 0, FALSE),
      Text("FREITAGS  \tbis\nMontag 8.30 Uhr bis 17.00",
           "FREITAGS  \tbis\nMontag 8.30 Uhr bis 17.00", <<5, 1>>, {1, 5}, 1, FALSE),
      Text("sonntag bis sonntag", "sonntag bis sonntag", <<7, 7>>, {7}, 0, FALSE),
      Text("samstag bis freitag", "samstag bis freitag", <<6, 5>>, {5, 6}, 0, FALSE),
      Text("montag bis mittwoch und freitag bis sonntag",
           "montag bis mittwoch und freitag bis sonntag", <<1, 3>>, {1, 3, 5, 7}, 0, FALSE),
      Text("montag und dienstag bis freitag", "montag und dienstag bis freitag",
           <<2, 5>>, {1, 2, 5}, 0, FALSE),
      Text("  Samstag bis Sonntags 00:00 bis 23:59 ", "Samstag bis Sonntags 00:00 bis 23:59",
           <<6, 7>>, {6, 7}, 1, FALSE),
      Text("sonntag, montag, sonntags, Mittwoch", "sonntag, montag, sonntags, Mittwoch",
           <<>>, {1, 3, 7}, 0, FALSE),
      Text("montag 08:00 bis freitag", "montag 08:00 bis freitag", <<>>, {1, 5}, 0, FALSE),
      Text("montag, mittwoch und freitag", "montag, mittwoch und freitag",
           <<>>, {1, 3, 5}, 0, FALSE),
      Text("dienstagabend bis donnerstagmorgen", "dienstagabend bis donnerstagmorgen",
           <<>>, {2, 4}, 0, FALSE),
      Text("montags bis bis freitags", "montags bis bis freitags", <<>>, {1, 5}, 0, FALSE),
      Text("08:00 bis 13:00 sowie 14:00-18:30", "08:00 bis 13:00 sowie 14:00-18:30",
           <<>>, {}, 2, FALSE),
      Text("montags bis freitags 08:00 bis 13:00 Datum von 2026 02 01 bis 2026 03 31",
           "montags bis freitags 08:00 bis 13:00 Datum von 2026 02 01 bis 2026 03 31",
           <<1, 5>>, {1, 5}, 1, TRUE),
      Text("jederzeit erreichbar", "jederzeit erreichbar", <<>>, {}, 0, FALSE),
      Text("Mo-Fr 9-17\n", "Mo-Fr 9-17", <<>>, {}, 0, FALSE),
      Text("25:00 bis 26:00", "25:00 bis 26:00", <<>>, {}, 0, FALSE),
      Text("22:00 bis 06:00", "22:00 bis 06:00", <<>>, {}, 1, FALSE),
      Text("Datum von 2026 02 01 bis 2026 02 28", "Datum von 2026 02 01 bis 2026 02 28",
           <<>>, {}, 0, TRUE),
      Text("vom 28.02.2026 bis 01.03.2026", "vom 28.02.2026 bis 01.03.2026",
           <<>>, {}, 0, TRUE),
      Text("", "", <<>>, {}, 0, FALSE),
      Text("   ", "", <<>>, {}, 0, FALSE),
      Text(" \n\t", "", <<>>, {}, 0, FALSE) }

\* what a reader recognizes in the text of a raw rule
Reading(text) == CHOOSE c \in TextCorpus : c.text = text

RawRule(rawText, label, orderHint, targetText, active) ==
    [rawText |-> rawText, label |-> label, orderHint |-> orderHint,
     targetText |-> targetText, active |-> active]

RawModule(moduleId, moduleName, modulePhoneNumber, active, rawRules) ==
    [moduleId |-> moduleId, moduleName |-> moduleName,
     modulePhoneNumber |-> modulePhoneNumber, active |-> active, rawRules |-> rawRules]

\* the rule of the scrape with and without the optional parts of the page
MainRules ==
    { RawRule(c.text, Undefined, Undefined, Undefined, None) : c \in TextCorpus }
    \cup { RawRule(c.text, " Tag ", "Nr. 2", "Mailbox: Vertrieb", Some(FALSE)) :
             c \in TextCorpus }

\* what precedes it in its module: nothing, an empty row, or the same text again
RuleLists ==
    { <<r>> : r \in MainRules }
    \cup { <<RawRule("   ", "leer", Undefined, Undefined, None), r>> : r \in MainRules }
    \cup { <<RawRule(r.rawText, "Ansage", "1", "Ansage: hallo.wav", Some(TRUE)), r>> :
             r \in MainRules }

\* a second module without an id, with a text of the first module in other spacing
OtherModules ==
    { <<>>,
      << RawModule("", "Hotline", Undefined, None,
                   << RawRule("  montags bis freitags\n", "Werktage", "", "Benutzer: Max", Some(TRUE)) >>) >> }

RawScrapes ==
    { << RawModule("m1", "Zentrale", "100", Some(TRUE), rules) >> \o other :
        rules \in RuleLists, other \in OtherModules }

MaxNormalizations == 2

ParserInit ==
    /\ OrchInit
    /\ LoginIdle
    /\ ppc = "scraped"
    /\ rawModules \in RawScrapes
    /\ normalized = <<>>
    /\ plannerModules = <<>>
    /\ selectedDate = [day |-> 0, ms |-> 0]
    /\ dateInput = [iso |-> "", dow |-> 0]
    /\ evaluatedBlocks = <<>>
    /\ conflicts = <<>>
    /\ evalRules = <<>>
    /\ timeRanges = <<>>
    /\ logins = NoLogins

\* scrapeModules: the raw modules are normalized; the k-th run happens at time k
Normalize ==
    /\ ppc = "scraped"
    /\ Len(normalized) < MaxNormalizations
    /\ normalized' = Append(normalized,
                            normalizeRawModules("instance-1", rawModules, Len(normalized) + 1))
    /\ UNCHANGED <<ppc, rawModules, plannerModules, selectedDate, dateInput,
                   evaluatedBlocks, conflicts, evalRules, timeRanges>>
    /\ UNCHANGED <<orchVars, loginVars>>

\* the frontend loads the latest payload and maps it to the planner's modules
MapModules ==
    /\ ppc = "scraped"
    /\ normalized # <<>>
    /\ normalized[Len(normalized)].ok
    /\ plannerModules' = mapNormalizedPayloadToModules(normalized[Len(normalized)].payload)
    /\ ppc' = "planner"
    /\ UNCHANGED <<rawModules, normalized, selectedDate, dateInput,
                   evaluatedBlocks, conflicts, evalRules, timeRanges>>
    /\ UNCHANGED <<orchVars, loginVars>>

ParserNext ==
    \/ Normalize /\ UNCHANGED logins
    \/ MapModules /\ UNCHANGED logins
    \/ \E d \in 1..Len(DateCorpus), ms \in DayTimes : DetectConflicts(d, ms) /\ UNCHANGED logins
    \/ \E k \in 1..2 : EvaluateRules(k) /\ UNCHANGED logins

ParserSpec == ParserInit /\ [][ParserNext]_vars

\* the normalizations that returned a payload
Payloads == {normalized[k].payload : k \in {n \in DOMAIN normalized : normalized[n].ok}}

\* the raw rules of module `j` whose text a reader finds non-empty
KeptRaw(j) ==
    SelectSeq(rawModules[j].rawRules, LAMBDA rule : Reading(rule.rawText).trimmed # "")

HasEmptyRule ==
    \E j \in DOMAIN rawModules : \E i \in DOMAIN rawModules[j].rawRules :
        Reading(rawModules[j].rawRules[i].rawText).trimmed = ""

\* C16: a raw rule whose text is empty after trimming is a hard parse failure,
\* also when it arrives through the pipeline: normalizing a scrape that has such
\* a rule raises PARSE_FAILED and returns no payload.
C16_EmptyTextFailsPipeline ==
    HasEmptyRule =>
        \A k \in DOMAIN normalized :
            ~normalized[k].ok /\ normalized[k].error.code = "PARSE_FAILED"

\* the positions of the rules of a payload: module and rule
RulePositions(payload) ==
    {<<j, i>> : j \in DOMAIN payload.modules, i \in 1..2} \cap
    UNION {{<<j, i>> : i \in DOMAIN payload.modules[j].rules} : j \in DOMAIN payload.modules}

RuleAt(payload, pos) == payload.modules[pos[1]].rules[pos[2]]

ReadingAt(pos) == Reading(KeptRaw(pos[1])[pos[2]].rawText)

\* C18: parseDaysOfWeek returns a duplicate-free list of day numbers in 1..7; for
\* a text with a '<day> bis <day>' range from s to e it is the cyclic run s, s+1,
\* ..., e with ((e - s) mod 7) + 1 elements, wrapping from 7 to 1; otherwise it
\* is the set of the weekdays mentioned in the text, ascending.
C18_DaysOfWeek ==
    \A payload \in Payloads : \A pos \in RulePositions(payload) :
        LET days == RuleAt(payload, pos).daysOfWeek
            read == ReadingAt(pos)
        IN  /\ \A k \in DOMAIN days : days[k] \in 1..7
            /\ Cardinality(Range(days)) = Len(days)
            /\ read.range # <<>> =>
                  /\ Len(days) = ((read.range[2] - read.range[1] + 7) % 7) + 1
                  /\ \A k \in DOMAIN days : days[k] = ((read.range[1] + k - 2) % 7) + 1
            /\ read.range = <<>> =>
                  /\ Range(days) = read.days
                  /\ \A k \in 1..(Len(days) - 1) : days[k] < days[k + 1]

\* a range from Friday to Monday gave 5, 6, 7, 1
C18_Witness ==
    \E payload \in Payloads : \E pos \in RulePositions(payload) :
        /\ ReadingAt(pos).range = <<5, 1>>
        /\ RuleAt(payload, pos).daysOfWeek = <<5, 6, 7, 1>>

\* C19: rule identifiers are stable. Normalizing the same raw scrape twice yields
\* the same ruleId at every position, and two rules with the same trimmed raw text
\* and the same order value have the same ruleId, whatever the time, label,
\* target, active flag or module.
C19_StableRuleIds ==
    \A p1 \in Payloads, p2 \in Payloads :
        /\ RulePositions(p1) = RulePositions(p2)
        /\ \A pos \in RulePositions(p1) : RuleAt(p1, pos).ruleId = RuleAt(p2, pos).ruleId
        /\ \A a \in RulePositions(p1), b \in RulePositions(p2) :
              (/\ ReadingAt(a).trimmed = ReadingAt(b).trimmed
               /\ RuleAt(p1, a).order = RuleAt(p2, b).order)
              => RuleAt(p1, a).ruleId = RuleAt(p2, b).ruleId

\* two normalizations at different times; in each, two rules of different modules,
\* labels, targets and active flags have the same text, order and identifier
C19_Witness ==
    /\ Len(normalized) = 2
    /\ \A k \in 1..2 : normalized[k].ok
    /\ normalized[1].payload.fetchedAt # normalized[2].payload.fetchedAt
    /\ \E a \in RulePositions(normalized[1].payload),
          b \in RulePositions(normalized[2].payload) :
          LET r1 == RuleAt(normalized[1].payload, a)
              r2 == RuleAt(normalized[2].payload, b)
          IN  /\ a[1] # b[1]
              /\ r1.ruleId = r2.ruleId
              /\ r1.label # r2.label
              /\ r1.target # r2.target
              /\ r1.active # r2.active
              /\ KeptRaw(a[1])[a[2]].rawText # KeptRaw(b[1])[b[2]].rawText

\* a text in which a reader finds neither a weekday nor a time window
Permissive(read) ==
    read.trimmed # "" /\ read.range = <<>> /\ read.days = {} /\ read.windows = 0

LatestPayload == normalized[Len(normalized)].payload

\* the warnings of the payload about the module `name` that contain `phrase`
WarningsAbout(name, phrase) ==
    {k \in DOMAIN LatestPayload.warnings :
        /\ hasAt(LatestPayload.warnings[k], 1, name \o ": Regel ")
        /\ includes(LatestPayload.warnings[k], phrase)}

\* the permissive rule at `pos` is emitted with its two warnings and, when its
\* module is evaluated, yields the full-day block and nothing else
PermissiveDefault(pos) ==
    LET rule == RuleAt(LatestPayload, pos)
        name == rawModules[pos[1]].moduleName
        prefix == name \o ": Regel " \o ToString(rule.order + 1)
    IN  /\ rule.rawText = ReadingAt(pos).trimmed
        /\ (prefix \o ": keine Wochentage erkannt") \in Range(LatestPayload.warnings)
        /\ (prefix \o ": keine Zeitfenster erkannt (Full-Day angenommen)")
               \in Range(LatestPayload.warnings)
        /\ evalRules = plannerModules[pos[1]].rules =>
              /\ Len(BlocksOfRule([id |-> rule.ruleId]))
                     = Cardinality({k \in DOMAIN evalRules : evalRules[k].id = rule.ruleId})
              /\ \A b \in Range(BlocksOfRule([id |-> rule.ruleId])) :
                     b = [start |-> 0, end |-> 1440, ruleId |-> rule.ruleId,
                          intervalId |-> "full-day"]

\* every non-empty raw rule is emitted, and a module has one warning about
\* weekdays per rule without weekdays and one about windows per rule without windows
EmittedWithWarnings ==
    \A j \in DOMAIN rawModules :
        /\ Len(LatestPayload.modules[j].rules) = Len(KeptRaw(j))
        /\ Cardinality(WarningsAbout(rawModules[j].moduleName, "keine Wochentage erkannt"))
               = Cardinality({i \in DOMAIN KeptRaw(j) :
                     LET read == Reading(KeptRaw(j)[i].rawText)
                     IN  read.range = <<>> /\ read.days = {}})
        /\ Cardinality(WarningsAbout(rawModules[j].moduleName, "keine Zeitfenster erkannt"))
               = Cardinality({i \in DOMAIN KeptRaw(j) :
                     Reading(KeptRaw(j)[i].rawText).windows = 0})

\* permissive defaults as first stated: a non-empty rule text with no
\* recognizable weekday and no time window is emitted with one warning for the
\* missing weekdays and one for the missing windows, and after mapping it
\* evaluates on every date to exactly one full-day block [0,1440).
C17_PermissiveDefaults ==
    ppc = "planner" =>
        /\ EmittedWithWarnings
        /\ \A pos \in RulePositions(LatestPayload) :
               Permissive(ReadingAt(pos)) => PermissiveDefault(pos)

\* C17: permissive defaults end to end. A non-empty rule text with no
\* recognizable weekday, no time window and no date range is emitted as a rule,
\* with one warning for the missing weekdays and one for the missing windows, and
\* after mapping to the planner model it evaluates on every date to exactly one
\* full-day block [0,1440).
C17_PermissiveUndated ==
    ppc = "planner" =>
        /\ EmittedWithWarnings
        /\ \A pos \in RulePositions(LatestPayload) :
               (Permissive(ReadingAt(pos)) /\ ~ReadingAt(pos).dated) => PermissiveDefault(pos)

\* a module with a permissive rule was evaluated on a Sunday and shows the
\* full-day block; the payload carries the two warnings
C17_Witness ==
    /\ ppc = "planner"
    /\ dateInput.dow = 0
    /\ \E pos \in RulePositions(LatestPayload) :
          /\ Permissive(ReadingAt(pos))
          /\ ~ReadingAt(pos).dated
          /\ evalRules = plannerModules[pos[1]].rules
          /\ \E b \in Range(timeRanges) :
                b.ruleId = RuleAt(LatestPayload, pos).ruleId /\ b.intervalId = "full-day"
    /\ Len(LatestPayload.warnings) >= 2

(***************************************************************************)
(* Reading the modules of an instance                                      *)
(***************************************************************************)
\* syncResultStore.load: the payload stored for the instance, or none
load(store, instanceId) == IF MapHas(store, instanceId) THEN store[instanceId] ELSE NoPayload

\* GET /api/instances/:instanceId/modules
GetModules(instanceId) ==
    LET payload == load(payloadByInstanceId, instanceId)
        notFound(message) ==
            [EvNone EXCEPT !.op = "getModules", !.step = "throw", !.instanceId = instanceId,
                           !.error = AppError("INSTANCE_NOT_FOUND", message, 404)]
    IN  /\ ev' = IF ~MapHas(instancesById, instanceId)
                 THEN notFound("Instanz nicht gefunden")
                 ELSE IF payload = NoPayload
                 THEN notFound("Noch kein Sync-Ergebnis vorhanden")
                 ELSE [EvNone EXCEPT !.op = "getModules", !.step = "return",
                                     !.instanceId = instanceId, !.summary = payload]
        /\ UNCHANGED <<now, instancesById, instancesByBaseUrl, healthByInstanceId,
                       runningInstances, lastSyncStartedAt, payloadByInstanceId, calls,
                       verifies, lastUpsert, admittedAt>>
        /\ UNCHANGED <<lastSynced, loginVars, planVars>>

\* the routes of the app with the read of the modules; a scrape may find no module
StoreNext ==
    \/ Tick /\ UNCHANGED logins
    \/ \E params \in OrchParams : PostInstances(params) /\ UNCHANGED logins
    \/ \E v \in VerifyIds : VerifyResolves(v) /\ UNCHANGED logins
    \/ \E v \in VerifyIds, error \in LoginErrors : VerifyRejects(v, error) /\ UNCHANGED logins
    \/ \E instanceId \in InstanceIds : SyncInstanceCall(instanceId) /\ UNCHANGED logins
    \/ \E c \in CallIds, modules \in 0..MaxModules : ScrapeResolves(c, modules) /\ UNCHANGED logins
    \/ \E c \in CallIds, error \in PipelineErrors : ScrapeRejects(c, error) /\ UNCHANGED logins
    \/ \E c \in CallIds : TimeoutFires(c) /\ UNCHANGED logins
    \/ \E c \in CallIds : SaveResolves(c) /\ UNCHANGED logins
    \/ \E c \in CallIds, error \in SaveErrors : SaveRejects(c, error) /\ UNCHANGED logins
    \/ \E instanceId \in InstanceIds : GetModules(instanceId) /\ UNCHANGED logins

StoreSpec == Init /\ [][StoreNext]_vars

\* C20: reading an instance's modules. For a registered instance the read is a
\* not-found error until its first successful sync and afterwards returns exactly
\* the payload persisted by the most recent successful sync of the instance, be it
\* empty; the stored payloads are at all times those of the most recent successful
\* syncs, so failed, timed-out and rejected attempts leave them unchanged.
C20_ReadModules ==
    /\ payloadByInstanceId = lastSynced
    /\ (ev.op = "getModules" /\ MapHas(instancesById, ev.instanceId)) =>
          IF MapHas(lastSynced, ev.instanceId)
          THEN ev.step = "return" /\ ev.summary = lastSynced[ev.instanceId]
          ELSE /\ ev.step = "throw"
               /\ ev.error.code = "INSTANCE_NOT_FOUND"
               /\ ev.error.status = 404

\* an empty payload is read back although a later sync of the instance failed
C20_Witness ==
    /\ ev.op = "getModules"
    /\ ev.step = "return"
    /\ ev.summary.modules = 0
    /\ healthByInstanceId[ev.instanceId].lastErrorCode # Null
    /\ healthByInstanceId[ev.instanceId].lastSuccessfulSyncAt = ev.summary.fetchedAt

(***************************************************************************)
(* app.ts (createApp): the middleware in front of the routes               *)
(***************************************************************************)
\* config.csrfToken and config.allowedOrigins
csrfToken == "csrf-1"

allowedOrigins == {"http://localhost:3000", "http://127.0.0.1:3000"}

safeMethods == {"GET", "HEAD", "OPTIONS"}

\* an answer given to a request: the status and, for an error answer, the error
Response(status, error) == [status |-> status, error |-> error]

NoResponse == Response(0, NoError)

\* what createInstanceInputSchema.parse throws
ZodError == [kind |-> "ZodError", code |-> Undefined, message |-> Undefined, status |-> 0]

\* a malformed JSON body, as express.json passes it on
BodyError == PlainError("Unexpected token in JSON")

\* middleware/errorHandler.ts
errorHandler(error) ==
    IF error.kind = "ZodError"
    THEN Response(400, AppError("VALIDATION_ERROR", "Validierung fehlgeschlagen", 400))
    ELSE IF isAppError(error) THEN Response(error.status, error)
    ELSE Response(500, AppError("INTERNAL_ERROR", "Interner Serverfehler", 500))

\* middleware/errorHandler.ts notFoundHandler
notFoundHandler == Response(404, AppError("NOT_FOUND", "Route nicht gefunden", 404))

\* the origin callback handed to cors: the error it calls back with, or none
corsOrigin(origin) ==
    IF origin = Undefined THEN NoError
    ELSE IF origin \in allowedOrigins THEN NoError
    ELSE PlainError("Origin nicht erlaubt")

\* a check that lets every request pass
csrfProtectionOff(token, req) == NoError

\* middleware/csrf.ts csrfProtection(csrfToken): the error handed to next, or none
csrfProtection(token, req) ==
    IF req.method \in safeMethods THEN NoError
    ELSE IF req.token = Undefined \/ req.token = "" \/ req.token # token
    THEN AppError("CSRF_TOKEN_INVALID", "Ungueltiger CSRF-Token", 403)
    ELSE NoError

\* app.get(path, ...) also serves HEAD
isGet(req) == req.method \in {"GET", "HEAD"}

\* the middleware of createApp in order, up to the routes behind the CSRF check:
\* the answer that ends the request there, or NoResponse if it goes on. cors ends
\* a request whose origin is refused with the error and answers OPTIONS itself;
\* the rate limiter answers 429 beyond its limit; express.json fails on a
\* malformed body
beforeRoutes(req) ==
    IF corsOrigin(req.origin) # NoError THEN errorHandler(corsOrigin(req.origin))
    ELSE IF req.method = "OPTIONS" THEN Response(204, NoError)
    ELSE IF req.limited THEN Response(429, NoError)
    ELSE IF req.malformed THEN errorHandler(BodyError)
    ELSE IF isGet(req) /\ req.path = "/api/csrf" THEN Response(200, NoError)
    ELSE IF csrfProtection(csrfToken, req) # NoError
    THEN errorHandler(csrfProtection(csrfToken, req))
    ELSE NoResponse

\* the answer is sent and no handler of a route runs
Answer(req, response) ==
    /\ ev' = [EvNone EXCEPT !.op = "http",
                            !.step = IF response.error = NoError THEN "respond" ELSE "throw",
                            !.instanceId = req.instanceId,
                            !.error = response.error,
                            !.status = response.status,
                            !.request = req]
    /\ UNCHANGED <<now, instancesById, instancesByBaseUrl, healthByInstanceId,
                   runningInstances, lastSyncStartedAt, payloadByInstanceId, calls,
                   verifies, lastUpsert, admittedAt>>
    /\ UNCHANGED <<lastSynced, loginVars, planVars>>

\* the routes behind the CSRF check
Route(req) ==
    IF req.method = "POST" /\ req.path = "/api/instances"
    THEN IF req.body = <<>> THEN Answer(req, errorHandler(ZodError))
         ELSE PostInstances(req.body[1])
    ELSE IF isGet(req) /\ req.path = "/api/instances"
    THEN Answer(req, Response(200, NoError))
    ELSE IF req.method = "POST" /\ req.path = "/api/instances/:instanceId/sync"
    THEN IF MapHas(instancesById, req.instanceId)
         THEN SyncInstanceCall(req.instanceId)
         ELSE Answer(req, errorHandler(AppError("INSTANCE_NOT_FOUND",
                                                "Instanz nicht gefunden", 404)))
    ELSE IF isGet(req) /\ req.path = "/api/instances/:instanceId/modules"
    THEN GetModules(req.instanceId)
    ELSE Answer(req, notFoundHandler)

\* one request to the app
HttpRequest(req) ==
    IF beforeRoutes(req) # NoResponse THEN Answer(req, beforeRoutes(req)) ELSE Route(req)

Request(method, path, instanceId, token, origin, limited, malformed, body) ==
    [method |-> method, path |-> path, instanceId |-> instanceId, token |-> token,
     origin |-> origin, limited |-> limited, malformed |-> malformed, body |-> body]

\* the requests the app is exercised with: every method with no token, the token
\* of the server and another token to each route, the registration with and
\* without a valid body; the state-changing ones also from a page of another
\* origin, and the sync beyond the rate limit and with a malformed body
Methods == {"GET", "HEAD", "OPTIONS", "POST", "DELETE"}

Tokens == {Undefined, csrfToken, "csrf-2"}

Targets ==
    { <<"/api/csrf", Null, <<>> >>,
      <<"/api/instances", Null, <<>> >>,
      <<"/api/instances/:instanceId/sync", "inst-a1", <<>> >>,
      <<"/api/instances/:instanceId/modules", "inst-a1", <<>> >> }
    \cup { <<"/api/instances", Null, <<params>> >> : params \in OrchParams }

Requests ==
    { Request(method, target[1], target[2], token, Undefined, FALSE, FALSE, target[3]) :
          method \in Methods, target \in Targets, token \in Tokens }
    \cup { Request("POST", target[1], target[2], token, "https://evil.example",
                   FALSE, FALSE, target[3]) :
               target \in Targets \ {<<"/api/csrf", Null, <<>> >>}, token \in Tokens }
    \cup { Request("POST", "/api/instances/:instanceId/sync", "inst-a1", token,
                   "http://localhost:3000", limited, ~limited, <<>>) :
               token \in Tokens, limited \in BOOLEAN }

ApiNext ==
    \/ \E req \in Requests : HttpRequest(req) /\ UNCHANGED logins
    \/ \E v \in VerifyIds : VerifyResolves(v) /\ UNCHANGED logins
    \/ \E c \in CallIds : ScrapeResolves(c, 1) /\ UNCHANGED logins
    \/ \E c \in CallIds : SaveResolves(c) /\ UNCHANGED logins

ApiSpec == Init /\ [][ApiNext]_vars

\* a state-changing request: its method is none of the safe ones
Mutating(req) == req.method \notin safeMethods

\* the request lacks the x-csrf-token header or carries a token that is not the server's
LacksToken(req) == req.token = Undefined \/ req.token # csrfToken

\* the step answers with the error of the CSRF check
CsrfRejected ==
    ev'.op = "http" /\ ev'.status = 403 /\ ev'.error.code = "CSRF_TOKEN_INVALID"

RegistryAndPayloadsUnchanged ==
    UNCHANGED <<instancesById, instancesByBaseUrl, healthByInstanceId, payloadByInstanceId>>

\* C21 as stated: every state-changing request under /api without the token of
\* the server is rejected with 403 CSRF_TOKEN_INVALID before its handler runs and
\* the registry, the health and the payloads are unchanged; a safe-method request
\* without a token is not rejected by the check.
C21_CsrfRejectsAll ==
    [][\A req \in Requests :
          HttpRequest(req) =>
              /\ (Mutating(req) /\ LacksToken(req)) =>
                     CsrfRejected /\ RegistryAndPayloadsUnchanged
              /\ (~Mutating(req) /\ req.token = Undefined) => ~CsrfRejected]_vars

\* C21: a state-changing request under /api without the token of the server is
\* answered by the middleware in front of the routes, so no handler runs and the
\* registry, the health and the payloads are unchanged; the answer is 403
\* CSRF_TOKEN_INVALID unless the middleware before the check ended the request
\* (origin refused: 500 INTERNAL_ERROR; rate limit: 429; malformed body: 500); a
\* safe-method request without a token is not rejected by the check.
C21_CsrfBeforeHandlers ==
    [][\A req \in Requests :
          HttpRequest(req) =>
              /\ (Mutating(req) /\ LacksToken(req)) =>
                     /\ ev'.op = "http"
                     /\ ev'.step = "throw" \/ ev'.status = 429
                     /\ RegistryAndPayloadsUnchanged
                     /\ IF corsOrigin(req.origin) # NoError THEN ev'.status = 500
                        ELSE IF req.limited THEN ev'.status = 429
                        ELSE IF req.malformed THEN ev'.status = 500
                        ELSE CsrfRejected
              /\ (~Mutating(req) /\ req.token = Undefined) => ~CsrfRejected]_vars

\* a sync request with a wrong token was rejected while the instance is registered
\* and was never synced, so the handler would have started a sync
C21_Witness ==
    /\ ev.op = "http"
    /\ ev.status = 403
    /\ ev.request.method = "POST"
    /\ ev.request.path = "/api/instances/:instanceId/sync"
    /\ ev.request.token = "csrf-2"
    /\ MapHas(instancesById, ev.request.instanceId)
    /\ ~MapHas(lastSyncStartedAt, ev.request.instanceId)
    /\ runningInstances = {}


(***************************************************************************)
(* syncService.ts (syncInstance): what a rejected call leaves behind       *)
(***************************************************************************)
\* the step just taken rejected a syncInstance call
SyncRejectedNext ==
    /\ ev'.op = "syncInstance"
    /\ ev'.exit = "rejected"

\* C25: a rejected syncInstance call (SYNC_IN_PROGRESS or SYNC_RATE_LIMITED) changes
\* no state: the in-flight set, the recorded last-sync-start time, the health
\* records and the stored payloads are as before the call (and so are the registry
\* and the pending calls), so a rejected call neither extends the cooldown nor
\* overwrites the last error of the health record.
C25_RejectionChangesNothing ==
    [][SyncRejectedNext =>
          /\ ev'.error.code \in {"SYNC_IN_PROGRESS", "SYNC_RATE_LIMITED"}
          /\ UNCHANGED <<runningInstances, lastSyncStartedAt, healthByInstanceId,
                         payloadByInstanceId>>
          /\ UNCHANGED <<instancesById, instancesByBaseUrl, calls, verifies, lastSynced>>]_vars

\* a call was rejected by the cooldown while the health record carries the error
\* of the failed sync before it and the payload of an earlier successful one
C25_Witness ==
    /\ ev.op = "syncInstance"
    /\ ev.exit = "rejected"
    /\ ev.error.code = "SYNC_RATE_LIMITED"
    /\ MapHas(healthByInstanceId, ev.instanceId)
    /\ healthByInstanceId[ev.instanceId].lastErrorCode \notin {Null, "SYNC_RATE_LIMITED"}
    /\ MapHas(payloadByInstanceId, ev.instanceId)
    /\ lastSyncStartedAt[ev.instanceId] = ev.admittedBefore
    /\ ev.at > ev.admittedBefore



(***************************************************************************)
(* instanceStore.ts (health records): who writes loginOk                    *)
(***************************************************************************)
\* the step just taken was verifyInstanceLogin returning for `instanceId`
LoginVerifiedNext(instanceId) ==
    /\ ev'.op = "verifyInstanceLogin"
    /\ ev'.step = "return"
    /\ ev'.instanceId = instanceId

\* the step just taken ended a sync of `instanceId` with an error
SyncFailedNext(instanceId) ==
    /\ ev'.op = "syncInstance"
    /\ ev'.step = "throw"
    /\ ev'.instanceId = instanceId

\* C27: loginOk is written only by a successful verifyInstanceLogin and only to
\* true: a health record is created with loginOk false (unless the step that
\* creates it is that successful login), is never removed, changes loginOk only in
\* a step in which verifyInstanceLogin returns for that instance, and never from
\* true to false; a sync that ends with an error (failure, timeout or rejection)
\* leaves lastSuccessfulSyncAt as it was.
C27_LoginOkWriters ==
    [][\A instanceId \in InstanceIds :
          /\ MapHas(healthByInstanceId, instanceId) => MapHas(healthByInstanceId', instanceId)
          /\ (~MapHas(healthByInstanceId, instanceId) /\ MapHas(healthByInstanceId', instanceId))
                => \/ healthByInstanceId'[instanceId].loginOk = FALSE
                   \/ LoginVerifiedNext(instanceId)
          /\ (MapHas(healthByInstanceId, instanceId) /\ MapHas(healthByInstanceId', instanceId))
                => /\ healthByInstanceId'[instanceId].loginOk # healthByInstanceId[instanceId].loginOk
                        => /\ healthByInstanceId'[instanceId].loginOk = TRUE
                           /\ LoginVerifiedNext(instanceId)
                   /\ healthByInstanceId[instanceId].loginOk
                        => healthByInstanceId'[instanceId].loginOk
                   /\ SyncFailedNext(instanceId)
                        => healthByInstanceId'[instanceId].lastSuccessfulSyncAt
                              = healthByInstanceId[instanceId].lastSuccessfulSyncAt]_vars

\* a sync of an instance whose login was verified and which was synchronised
\* before has just timed out
C27_Witness ==
    /\ ev.op = "syncInstance"
    /\ ev.step = "throw"
    /\ ev.exit = "timeout"
    /\ MapHas(healthByInstanceId, ev.instanceId)
    /\ healthByInstanceId[ev.instanceId].loginOk
    /\ healthByInstanceId[ev.instanceId].lastSuccessfulSyncAt # Null
    /\ healthByInstanceId[ev.instanceId].lastErrorCode = "INTERNAL_ERROR"



(***************************************************************************)
(* syncService.ts (syncInstance): two instances side by side               *)
(***************************************************************************)
\* the registrations of two STARFACE instances, each made once
FleetParams == UpsertParams(BaseUrls, {"admin"}, {"pw1"}, {Undefined})

FleetNext ==
    \/ Tick /\ UNCHANGED logins
    \/ \E params \in FleetParams :
          ~MapHas(instancesByBaseUrl, params.baseUrl) /\ Upsert(params) /\ UNCHANGED logins
    \/ \E instanceId \in InstanceIds : SyncInstanceCall(instanceId) /\ UNCHANGED logins
    \/ \E c \in CallIds : ScrapeResolves(c, 1) /\ UNCHANGED logins
    \/ \E c \in CallIds : TimeoutFires(c) /\ UNCHANGED logins
    \/ \E c \in CallIds : SaveResolves(c) /\ UNCHANGED logins

FleetSpec == Init /\ [][FleetNext]_vars

\* the instances other than `instanceId` with a sync pending
OthersPending(instanceId) ==
    {calls[c].instanceId : c \in {x \in CallIds : calls[x].phase # "idle"}} \ {instanceId}

\* the instances other than `instanceId` whose cooldown has not elapsed at `t`
OthersCooling(instanceId, t) ==
    {other \in InstanceIds \ {instanceId} : inCooldown(lastSyncStartedAt, other, t)}

\* C23: single-flight and cooldown are tracked per instance. A syncInstance call is
\* rejected with SYNC_IN_PROGRESS only when a sync of the same instance was pending
\* and with SYNC_RATE_LIMITED only when the same instance was admitted less than
\* the cooldown ago; a call for an instance with neither is admitted, whatever is
\* pending or cooling down for other instances.
C23_PerInstance ==
    SyncCallMade =>
        /\ (ev.exit = "rejected" /\ ev.error.code = "SYNC_IN_PROGRESS") => ev.pendingBefore
        /\ (ev.exit = "rejected" /\ ev.error.code = "SYNC_RATE_LIMITED")
              => /\ ev.admittedBefore # 0
                 /\ ev.at - ev.admittedBefore < syncCooldownMs
        /\ (~ev.pendingBefore
              /\ (ev.admittedBefore = 0 \/ ev.at - ev.admittedBefore >= syncCooldownMs))
              => ev.step = "admitted"

\* a sync of one instance was admitted while a sync of the other instance is in
\* flight and the other instance's cooldown has not elapsed
C23_Witness ==
    /\ ev.op = "syncInstance"
    /\ ev.step = "admitted"
    /\ ev.at = now
    /\ OthersPending(ev.instanceId) # {}
    /\ OthersCooling(ev.instanceId, now) # {}
    /\ ev.instanceId \in runningInstances
    /\ Cardinality(runningInstances) = 2



(***************************************************************************)
(* scraper.ts (normalizeRawModules), parser.ts (buildRuleId): rule ids     *)
(***************************************************************************)
\* C28: within each module of a payload produced by the normalizer, the ruleIds of
\* its rules are pairwise distinct, for every list of raw rules (rules with the
\* same text, with or without an order hint, rules dropped for empty text).
C28_DistinctRuleIds ==
    \A payload \in Payloads : \A j \in DOMAIN payload.modules :
        \A a \in DOMAIN payload.modules[j].rules, b \in DOMAIN payload.modules[j].rules :
            a # b => payload.modules[j].rules[a].ruleId # payload.modules[j].rules[b].ruleId



(***************************************************************************)
(* parser.ts (parseTimeWindows) to part_001 (evaluateRulesForDate): blocks *)
(***************************************************************************)
\* C24: every evaluated block derived from a normalized payload (parser output
\* mapped to planner rules and evaluated for a date) is a well-formed interval
\* inside the day: 0 <= startMinutes < endMinutes <= 1440.
C24_WellFormedBlocks ==
    (ppc = "planner" /\ normalized # <<>>) =>
        /\ \A k \in DOMAIN evaluatedBlocks :
              /\ 0 <= evaluatedBlocks[k].startMinutes
              /\ evaluatedBlocks[k].startMinutes < evaluatedBlocks[k].endMinutes
              /\ evaluatedBlocks[k].endMinutes <= 1440
        /\ \A k \in DOMAIN timeRanges :
              /\ 0 <= timeRanges[k].start
              /\ timeRanges[k].start < timeRanges[k].end
              /\ timeRanges[k].end <= 1440



(***************************************************************************)
(* moduleMapper.ts (toLegacyWeekday): the weekday from payload to planner  *)
(***************************************************************************)
\* the ISO weekday (Monday = 1, Sunday = 7) of the selected date
IsoWeekday == IF dateInput.dow = 0 THEN 7 ELSE dateInput.dow

\* toLegacyWeekday maps each ISO day to the getDay value of the same weekday,
\* one to one from 1..7 onto 0..6
WeekdayBijection ==
    /\ \A day \in 1..7 : toLegacyWeekday(day) = (IF day = 7 THEN 0 ELSE day)
    /\ {toLegacyWeekday(day) : day \in 1..7} = 0..6
    /\ \A d1 \in 1..7, d2 \in 1..7 : toLegacyWeekday(d1) = toLegacyWeekday(d2) => d1 = d2

\* the rules of the payload whose module is the one evaluated for the selected date
EvaluatedPositions ==
    IF ppc = "planner" /\ normalized # <<>> /\ dateInput.iso # "" /\ evalRules # <<>>
    THEN {pos \in RulePositions(LatestPayload) : evalRules = plannerModules[pos[1]].rules}
    ELSE {}

\* the rule at `pos` applies on the selected date: it yields a block
AppliesOnDate(pos) == BlocksOfRule([id |-> RuleAt(LatestPayload, pos).ruleId]) # <<>>

MaxEditorModules == 3

\* the values uuidv4() can return
Uuids == {"u" \o ToString(k) : k \in 1..(MaxEditorModules + 1)}

\* what the user enters in the ModuleForm
Forms ==
    { [phoneNumber |-> "100", active |-> TRUE, rules |-> RulesB],
      [phoneNumber |-> "100", active |-> FALSE, rules |-> <<>>] }

\* `[...modules].sort((a, b) => a.order - b.order)`
sortedModules(modules) == SortSeq(modules, LAMBDA a, b : a.order < b.order)

\* `modules.find((module) => module.id === id)`: the module found, if any
findModule(modules, id) ==
    IF \E k \in DOMAIN modules : modules[k].id = id
    THEN Some(modules[CHOOSE k \in DOMAIN modules :
                         modules[k].id = id /\ \A j \in 1..(k - 1) : modules[j].id # id])
    ELSE None

\* `moved.forEach((module, order) => { module.order = order; })`
withOrders(modules) == [k \in DOMAIN modules |-> [modules[k] EXCEPT !.order = k - 1]]

\* ModuleForm.handleSubmit: the module handed to onSave
moduleToSave(initialData, uuid, form) ==
    Module(IF initialData # None THEN initialData[1].id ELSE uuid,
           form.phoneNumber,
           form.active,
           IF initialData # None THEN initialData[1].order ELSE 0,
           form.rules)

handleSaveModule(previous, module, editingModuleId) ==
    IF editingModuleId # Null
    THEN [k \in DOMAIN previous |->
             IF previous[k].id = module.id THEN module ELSE previous[k]]
    ELSE Append(previous, [module EXCEPT !.order = Len(previous)])

\* moveModule(index, direction), index counted from 0 in the sorted list
moveModule(modules, index, direction) ==
    LET swapIndex == IF direction = "up" THEN index - 1 ELSE index + 1
    IN  IF swapIndex < 0 \/ swapIndex >= Len(modules) THEN modules
        ELSE withOrders([k \in DOMAIN modules |->
                            IF k = index + 1 THEN sortedModules(modules)[swapIndex + 1]
                            ELSE IF k = swapIndex + 1 THEN sortedModules(modules)[index + 1]
                            ELSE sortedModules(modules)[k]])

\* a deletion that leaves the orders of the remaining modules as they are
handleDeleteModuleKeepsOrders(previous, id) ==
    SelectSeq(previous, LAMBDA module : module.id # id)

handleDeleteModule(previous, id) ==
    withOrders(SelectSeq(previous, LAMBDA module : module.id # id))

\* the copy of handleCopyModule: new ids for the module, its rules and intervals
copiedModule(moduleToCopy, uuid) ==
    [moduleToCopy EXCEPT
        !.id = uuid,
        !.rules = [r \in DOMAIN moduleToCopy.rules |->
                      [moduleToCopy.rules[r] EXCEPT
                          !.id = uuid \o "-rule-" \o ToString(r),
                          !.intervals = [i \in DOMAIN moduleToCopy.rules[r].intervals |->
                              [moduleToCopy.rules[r].intervals[i] EXCEPT
                                  !.id = uuid \o "-interval-" \o ToString(i)]]]]]

\* `merged.splice(originalIndex + 1, 0, copiedModule)` and the new orders
spliceAfter(merged, id, copy) ==
    LET originalIndex == CHOOSE k \in DOMAIN merged :
                            merged[k].id = id /\ \A j \in 1..(k - 1) : merged[j].id # id
    IN  withOrders(SubSeq(merged, 1, originalIndex) \o <<copy>>
                     \o SubSeq(merged, originalIndex + 1, Len(merged)))

handleCopyModule(modules, id, uuid) ==
    IF findModule(modules, id) = None THEN modules
    ELSE spliceAfter(sortedModules(modules), id,
                     copiedModule(findModule(modules, id)[1], uuid))

UsedIds == {plannerModules[k].id : k \in DOMAIN plannerModules}

\* the module list is replaced; the handler that did it is recorded
SetModules(op, id, modules) ==
    /\ plannerModules' = modules
    /\ ev' = [EvNone EXCEPT !.op = op, !.step = "return", !.instanceId = id]
    /\ UNCHANGED <<ppc, selectedDate, evaluatedBlocks, conflicts, dateInput, evalRules,
                   timeRanges, rawModules, normalized>>
    /\ UNCHANGED <<now, instancesById, instancesByBaseUrl, healthByInstanceId,
                   runningInstances, lastSyncStartedAt, payloadByInstanceId,
                   calls, verifies, lastUpsert, admittedAt, lastSynced>>
    /\ UNCHANGED loginVars

\* 'New Module': the form is submitted with no module being edited
AddModule(uuid, form) ==
    /\ Len(plannerModules) < MaxEditorModules
    /\ uuid \notin UsedIds
    /\ SetModules("addModule", uuid,
                  handleSaveModule(plannerModules, moduleToSave(None, uuid, form), Null))

\* 'Edit Module': the form, opened on the module `id` as the list has it now, is
\* submitted
EditModule(id, uuid, form) ==
    /\ id \in UsedIds
    /\ uuid \notin UsedIds
    /\ SetModules("editModule", id,
                  handleSaveModule(plannerModules,
                                   moduleToSave(findModule(plannerModules, id), uuid, form),
                                   id))

MoveModule(index, direction) ==
    /\ index \in 0..(Len(plannerModules) - 1)
    /\ SetModules("moveModule", sortedModules(plannerModules)[index + 1].id,
                  moveModule(plannerModules, index, direction))

DeleteModule(id) ==
    /\ id \in UsedIds
    /\ SetModules("handleDeleteModule", id, handleDeleteModule(plannerModules, id))

CopyModule(id, uuid) ==
    /\ Len(plannerModules) < MaxEditorModules
    /\ id \in UsedIds
    /\ uuid \notin UsedIds
    /\ SetModules("handleCopyModule", id, handleCopyModule(plannerModules, id, uuid))

\* the editor opened on an empty module list
EditorInit ==
    /\ OrchInit
    /\ LoginIdle
    /\ PlanIdle
    /\ logins = NoLogins

EditorNext ==
    \/ \E uuid \in Uuids, form \in Forms : AddModule(uuid, form) /\ UNCHANGED logins
    \/ \E id \in Uuids, uuid \in Uuids, form \in Forms : EditModule(id, uuid, form) /\ UNCHANGED logins
    \/ \E index \in 0..(MaxEditorModules - 1), direction \in {"up", "down"} :
          MoveModule(index, direction) /\ UNCHANGED logins
    \/ \E id \in Uuids : DeleteModule(id) /\ UNCHANGED logins
    \/ \E id \in Uuids, uuid \in Uuids : CopyModule(id, uuid) /\ UNCHANGED logins

EditorSpec == EditorInit /\ [][EditorNext]_vars

\* the date the planner shows
EditorDate == setHours(parseLocalDate(DateCorpus[1].iso), 0)

\* in every conflict between two modules the winner has the strictly lower order
StrictWinners(found) ==
    \A k \in DOMAIN found :
        found[k].higher.moduleId # found[k].lower.moduleId
            => found[k].higher.priority < found[k].lower.priority

\* C30: starting from an empty module list, after any sequence of add module, edit
\* module, move up/down, duplicate and delete, the order values of the modules are
\* exactly 0..n-1 with no duplicates and no gaps (n the number of modules), so the
\* winner of a conflict between two modules is determined by a strict order.
C30_OrdersArePermutation ==
    /\ {plannerModules[k].order : k \in DOMAIN plannerModules} = 0..(Len(plannerModules) - 1)
    /\ \A i \in DOMAIN plannerModules, j \in DOMAIN plannerModules :
          i # j => plannerModules[i].order # plannerModules[j].order
    /\ StrictWinners(detectConflicts(plannerModules, EditorDate).conflicts)

\* a module was duplicated into a list of three, the copy stands right after its
\* original, and two of the modules conflict on the date shown
C30_Witness ==
    /\ ev.op = "handleCopyModule"
    /\ Len(plannerModules) = MaxEditorModules
    /\ \E k \in 1..(Len(plannerModules) - 1) :
          /\ plannerModules[k].id = ev.instanceId
          /\ plannerModules[k + 1].order = plannerModules[k].order + 1
          /\ plannerModules[k + 1].rules # <<>>
          /\ plannerModules[k + 1].rules[1].id # plannerModules[k].rules[1].id
    /\ detectConflicts(plannerModules, EditorDate).conflicts # <<>>



(***************************************************************************)
(* syncService.ts (withTimeout): the pipeline the timeout leaves behind    *)
(***************************************************************************)
\* the timer of withTimeout fired first: syncInstance ends with the timeout error
\* (catch, finally) while the promise of scrapeModules stays pending
TimeoutAbandons(c) ==
    LET instanceId == calls[c].instanceId
        mapped == toAppError(TimeoutError)
    IN  /\ calls[c].phase = "racing"
        /\ timerExpired(calls[c].startedAt, syncTimeoutMs, now)
        /\ healthByInstanceId' =
               markSyncFailure(healthByInstanceId, instanceId, mapped.code, mapped.message, now)
        /\ runningInstances' = runningAfterExit(runningInstances, instanceId)
        /\ calls' = [calls EXCEPT ![c].phase = "abandoned"]
        /\ ev' = [EvNone EXCEPT !.op = "syncInstance", !.step = "throw",
                                !.instanceId = instanceId, !.call = c, !.at = now,
                                !.error = mapped, !.cause = TimeoutError, !.exit = "timeout",
                                !.stuck = calls[c].stuck]
        /\ UNCHANGED <<now, instancesById, instancesByBaseUrl, lastSyncStartedAt,
                       payloadByInstanceId, verifies, lastUpsert, admittedAt>>
        /\ UNCHANGED <<lastSynced, loginVars, planVars>>

\* the event of an abandoned pipeline settling
LateSettle(c, outcome) ==
    [EvNone EXCEPT !.op = "scrapeModules", !.step = outcome,
                   !.instanceId = calls[c].instanceId, !.call = c, !.at = now]

\* a late settlement that runs the rest of syncInstance as if the race were open
AbandonedSettlesIntoSync(c, outcome) ==
    LET instanceId == calls[c].instanceId
    IN  /\ calls[c].phase = "abandoned"
        /\ ~calls[c].stuck
        /\ calls' = [calls EXCEPT ![c] = IdleCall]
        /\ ev' = LateSettle(c, outcome)
        /\ IF outcome = "resolve"
           THEN /\ payloadByInstanceId' = save(payloadByInstanceId, Payload(instanceId, now, 1))
                /\ healthByInstanceId' =
                       markSyncSuccess(healthByInstanceId, instanceId, nowIso(now), now)
           ELSE /\ healthByInstanceId' =
                       markSyncFailure(healthByInstanceId, instanceId,
                                       "SCRAPE_FAILED", "Scrape fehlgeschlagen", now)
                /\ UNCHANGED payloadByInstanceId
        /\ runningInstances' = runningAfterExit(runningInstances, instanceId)
        /\ UNCHANGED <<now, instancesById, instancesByBaseUrl, lastSyncStartedAt,
                       verifies, lastUpsert, admittedAt>>
        /\ UNCHANGED <<lastSynced, loginVars, planVars>>

\* the promise of scrapeModules settles after the race of withTimeout was decided:
\* Promise.race has settled already and no continuation of syncInstance waits for it
AbandonedSettles(c, outcome) ==
    /\ calls[c].phase = "abandoned"
    /\ ~calls[c].stuck
    /\ calls' = [calls EXCEPT ![c] = IdleCall]
    /\ ev' = LateSettle(c, outcome)
    /\ UNCHANGED <<now, instancesById, instancesByBaseUrl, healthByInstanceId,
                   runningInstances, lastSyncStartedAt, payloadByInstanceId,
                   verifies, lastUpsert, admittedAt>>
    /\ UNCHANGED <<lastSynced, loginVars, planVars>>

AbandonNext ==
    \/ Tick /\ UNCHANGED logins
    \/ \E params \in OrchParams :
          ~MapHas(instancesByBaseUrl, params.baseUrl) /\ Upsert(params) /\ UNCHANGED logins
    \/ \E instanceId \in InstanceIds : SyncInstanceCall(instanceId) /\ UNCHANGED logins
    \/ \E c \in CallIds : ScrapeResolves(c, 1) /\ UNCHANGED logins
    \/ \E c \in CallIds : SaveResolves(c) /\ UNCHANGED logins
    \/ \E c \in CallIds : TimeoutAbandons(c) /\ UNCHANGED logins
    \/ \E c \in CallIds, outcome \in {"resolve", "reject"} : AbandonedSettles(c, outcome) /\ UNCHANGED logins

AbandonSpec == Init /\ [][AbandonNext]_vars

\* the step just taken was the late settlement of an abandoned pipeline
LateSettleNext == \E c \in CallIds : calls[c].phase = "abandoned" /\ calls'[c].phase = "idle"

\* C26: once a syncInstance call has ended with the timeout error, the late
\* completion (success or failure) of its abandoned pipeline has no effect on
\* orchestrator state: it persists no payload, changes no health record and
\* neither adds to nor removes from the in-flight set (nor touches the cooldown or
\* the registry), also when a newer sync of the same instance is in flight.
C26_LateCompletionIgnored ==
    [][LateSettleNext =>
          /\ UNCHANGED <<payloadByInstanceId, healthByInstanceId, runningInstances>>
          /\ UNCHANGED <<lastSyncStartedAt, instancesById, instancesByBaseUrl, lastSynced>>
          /\ \A c \in CallIds : calls[c].phase # "abandoned" => calls'[c] = calls[c]]_vars

\* an abandoned pipeline has just resolved while a newer sync of the same
\* instance is in flight and the health record still shows the timeout
C26_Witness ==
    /\ ev.op = "scrapeModules"
    /\ ev.step = "resolve"
    /\ ev.instanceId \in runningInstances
    /\ ActiveCalls(ev.instanceId) # {}
    /\ healthByInstanceId[ev.instanceId].lastErrorCode = "INTERNAL_ERROR"
    /\ ~MapHas(payloadByInstanceId, ev.instanceId)



(***************************************************************************)
(* login.ts (loginToStarface) run by several callers: the artifact in use  *)
(***************************************************************************)
\* the executions of loginToStarface: one per pending syncInstance pipeline and
\* one per pending verifyInstanceLogin
Execs == ({"sync"} \X CallIds) \cup ({"verify"} \X VerifyIds)

posOf(e) == logins[e[1]][e[2]]

\* the execution `e` is running: its caller's promise has not settled
Running(e) ==
    IF e[1] = "sync" THEN calls[e[2]].phase \in {"racing", "abandoned"}
    ELSE verifies[e[2]] # Null

\* verifyLogin and scrapeModules begin with loginToStarface for their instance
LoginStarted(l, e) == [l EXCEPT ![e[1]][e[2]] = "launching"]

\* the promise of verifyLogin or scrapeModules has settled
LoginEnded(l, e) == [l EXCEPT ![e[1]][e[2]] = "idle"]

\* a step of loginToStarface moves the execution `e` to `pos`
LoginMoves(e, pos, written) ==
    /\ logins' = [logins EXCEPT ![e[1]][e[2]] = pos]
    /\ artifact' = IF written THEN "session" ELSE artifact
    /\ ev' = EvNone
    /\ UNCHANGED <<now, instancesById, instancesByBaseUrl, healthByInstanceId,
                   runningInstances, lastSyncStartedAt, payloadByInstanceId,
                   calls, verifies, lastUpsert, admittedAt, lastSynced>>
    /\ UNCHANGED <<lpc, page, lres, ltrace>>
    /\ UNCHANGED planVars

\* ensureDirectory and chromium.launch are through; reuseStorageState begins:
\* pathExists(storageStatePath), then browser.newContext({storageState: path})
ReuseStarts(e) ==
    /\ Running(e)
    /\ posOf(e) = "launching"
    /\ LoginMoves(e, "reading", FALSE)

\* reuseStorageState returns: the stored session is in use (`valid`), or there is
\* no artifact or it no longer logs in and the fresh login begins
ReuseEnds(e, valid) ==
    /\ Running(e)
    /\ posOf(e) = "reading"
    /\ LoginMoves(e, IF artifact # "absent" /\ valid THEN "loggedIn" ELSE "fresh", FALSE)

\* runFreshLoginV10 returns and context.storageState({path}) begins, or it throws
FreshLoginEnds(e, ok) ==
    /\ Running(e)
    /\ posOf(e) = "fresh"
    /\ LoginMoves(e, IF ok THEN "writing" ELSE "failed", FALSE)

\* context.storageState({path}) has written the artifact
StorageStateWritten(e) ==
    /\ Running(e)
    /\ posOf(e) = "writing"
    /\ LoginMoves(e, "loggedIn", TRUE)

\* the verifyInstanceLogin call that the step just taken started
VerifyStartedNext == CHOOSE v \in VerifyIds : verifies[v] = Null /\ verifies'[v] # Null

ArtifactNext ==
    \/ Tick /\ UNCHANGED logins
    \/ \E params \in OrchParams :
          /\ PostInstances(params)
          /\ logins' = LoginStarted(logins, <<"verify", VerifyStartedNext>>)
    \/ \E v \in VerifyIds :
          /\ posOf(<<"verify", v>>) = "loggedIn"
          /\ VerifyResolves(v)
          /\ logins' = LoginEnded(logins, <<"verify", v>>)
    \/ \E v \in VerifyIds :
          /\ posOf(<<"verify", v>>) = "failed"
          /\ VerifyRejects(v, AppError("OAUTH_LOGIN_FAILED",
                                       "OAuth Login wurde von STARFACE abgelehnt", 401))
          /\ logins' = LoginEnded(logins, <<"verify", v>>)
    \/ \E instanceId \in InstanceIds :
          /\ SyncInstanceCall(instanceId)
          /\ logins' = IF ev'.step = "admitted"
                       THEN LoginStarted(logins, <<"sync", ev'.call>>)
                       ELSE logins
    \/ \E c \in CallIds :
          /\ posOf(<<"sync", c>>) = "loggedIn"
          /\ ScrapeResolves(c, 1)
          /\ logins' = LoginEnded(logins, <<"sync", c>>)
    \/ \E c \in CallIds :
          /\ posOf(<<"sync", c>>) = "failed"
          /\ ScrapeRejects(c, AppError("OAUTH_LOGIN_FAILED",
                                       "OAuth Login wurde von STARFACE abgelehnt", 401))
          /\ logins' = LoginEnded(logins, <<"sync", c>>)
    \/ \E c \in CallIds : SaveResolves(c) /\ UNCHANGED logins
    \/ \E c \in CallIds : TimeoutAbandons(c) /\ UNCHANGED logins
    \/ \E c \in CallIds, outcome \in {"resolve", "reject"} :
          /\ posOf(<<"sync", c>>) = (IF outcome = "resolve" THEN "loggedIn" ELSE "failed")
          /\ AbandonedSettles(c, outcome)
          /\ logins' = LoginEnded(logins, <<"sync", c>>)
    \/ \E e \in Execs : ReuseStarts(e)
    \/ \E e \in Execs, valid \in BOOLEAN : ReuseEnds(e, valid)
    \/ \E e \in Execs, ok \in BOOLEAN : FreshLoginEnds(e, ok)
    \/ \E e \in Execs : StorageStateWritten(e)

ArtifactSpec == Init /\ [][ArtifactNext]_vars

\* the executions that are reading or writing the artifact of `instanceId`
UsingArtifact(instanceId) ==
    {e \in Execs :
        /\ posOf(e) \in {"reading", "writing"}
        /\ instanceId = (IF e[1] = "sync" THEN calls[e[2]].instanceId ELSE verifies[e[2]])}

====
